---- MODULE Spec2Model ----
(***************************************************************************)
(* Stepper pulse generation engine of the grblHAL SAMD21 driver            *)
(* (grblHAL_MKRZERO/src/driver.c).                                         *)
(*                                                                         *)
(* Three execution contexts share one core:                                *)
(*   - the foreground (task context), running wake_up, go_idle,            *)
(*     cycles_per_tick, enable and settings_changed;                       *)
(*   - the cycle-timer interrupt STEPPER_IRQHandler (NVIC priority 2),     *)
(*     whose planner callback calls pulse_start and cycles_per_tick;       *)
(*   - the pulse-timer interrupt (NVIC priority 1), dispatched through     *)
(*     vectorTable to STEPPULSE_IRQHandler or STEPPULSE_Delayed_IRQHandler.*)
(* Each step of the model is one C statement of one context (a register    *)
(* write together with the SYNCBUSY wait that follows it), or one hardware *)
(* event of a timer.  A context runs only while no interrupt of higher     *)
(* priority is active or pending.                                          *)
(***************************************************************************)
EXTENDS Integers, Naturals, Sequences, FiniteSets, TLC

(***************************************************************************)
(* Program constants                                                       *)
(***************************************************************************)
\* AXES_BITMASK for the three axes X, Y, Z driven by stepX/Y/Z and dirX/Y/Z
AXES_BITMASK == 7
\* hal.f_step_timer = SystemCoreClock / 3  (48 MHz / 3)
F_STEP_TIMER == 16000000
\* pulse timer ticks per microsecond: the 24.0f factor of settings_changed
TICKS_PER_US == 24
\* STEP_PULSE_LATENCY 2.3f, in tenths of a microsecond
STEP_PULSE_LATENCY10 == 23
\* the 1.7f delay offset of settings_changed, in tenths of a microsecond
STEP_DELAY_OFFSET10 == 17
\* STEP_TIMER_IRQn (TC3_IRQn), STEPPER_TIMER_IRQn (TC4_IRQn) and SysTick_IRQn
STEP_TIMER_IRQn == 18
STEPPER_TIMER_IRQn == 19
SysTick_IRQn == 0 - 1
\* the offset of the device interrupts in the vector table (IRQnum + 16)
VECTOR_OFFSET == 16
\* NVIC_SetPriority(STEPPER_TIMER_IRQn, 2), NVIC_SetPriority(STEP_TIMER_IRQn, 1):
\* the lower number is the higher priority
STEPPER_TIMER_PRIO == 2
\* variant of STEP_TIMER_PRIO: the pulse timer at the lower priority
STEP_TIMER_PRIO_Low == STEPPER_TIMER_PRIO + 1

STEP_TIMER_PRIO == 1

(***************************************************************************)
(* Bounds of the model                                                     *)
(***************************************************************************)
\* The pulse timer's COUNT (16 bit) is tracked exactly up to TickCap; the
\* value TickCap stands for every count from TickCap to 65535.
TickCap == 4
\* The cycle timer's COUNT (32 bit) is tracked exactly up to CycleCap; the
\* value CycleCap stands for every larger count.
CycleCap == 1

(***************************************************************************)
(* Bit helpers for axes_signals_t (bit 0 = x, bit 1 = y, bit 2 = z)        *)
(***************************************************************************)
Axes == {0, 1, 2}

Pow2(n) == 2^n

Bit(v, i) == (v \div Pow2(i)) % 2

\* value ^= mask on a 3-bit axes_signals_t
Xor(a, b) ==
    ((Bit(a, 0) + Bit(b, 0)) % 2)
  + ((Bit(a, 1) + Bit(b, 1)) % 2) * 2
  + ((Bit(a, 2) + Bit(b, 2)) % 2) * 4

\* DIGITAL_OUT(gpio, on): OUTSET or OUTCLR of the one pin i of a pin group
DIGITAL_OUT(pins, i, on) ==
    IF on = 1 THEN pins + (1 - Bit(pins, i)) * Pow2(i)
              ELSE pins - Bit(pins, i) * Pow2(i)

Min(a, b) == IF a < b THEN a ELSE b

\* C conversion of a quotient to an integer type: truncation toward zero
TruncDiv(a, b) == IF a >= 0 THEN a \div b ELSE -((-a) \div b)

(***************************************************************************)
(* Inputs                                                                  *)
(***************************************************************************)
\* settings_t as far as the engine reads it; times in tenths of a microsecond
\* (2.5 us -> 3 ticks, 1.0 us -> clamped to 2 ticks, delay 1.9 us -> 3 ticks)
Configs ==
    { [pulse_us10 |-> 25, delay_us10 |-> 0,
       step_invert |-> 4, dir_invert |-> 1, enable_invert |-> 0],
      [pulse_us10 |-> 10, delay_us10 |-> 0,
       step_invert |-> 0, dir_invert |-> 0, enable_invert |-> 1],
      [pulse_us10 |-> 10, delay_us10 |-> 19,
       step_invert |-> 5, dir_invert |-> 2, enable_invert |-> 1] }

\* stepper_t as far as pulse_start reads it
Commands ==
    { [step_out |-> 0, dir_out |-> 0, dir_changed |-> 0],
      [step_out |-> 5, dir_out |-> 0, dir_changed |-> 0],
      [step_out |-> 2, dir_out |-> 2, dir_changed |-> 2],
      [step_out |-> 0, dir_out |-> 5, dir_changed |-> 5] }

\* arguments of cycles_per_tick (uint32_t): the values around both ceilings
\* and the largest value a TLC integer holds, 2^31 - 1
CycleValues == {1, 2^18 - 1, 2^18, 2^23 - 1, 2^23, 2147483647}

\* builds: ADAPTIVE_MULTI_AXIS_STEP_SMOOTHING defined or not
Builds == BOOLEAN

\* arguments of enable
EnableMasks == {0, 1, 6, 7}

(***************************************************************************)
(* State                                                                   *)
(***************************************************************************)
VARIABLES
    amass,              \* ADAPTIVE_MULTI_AXIS_STEP_SMOOTHING defined in the build
    settings,           \* settings: the fields of Configs
    pulse_length,       \* static uint16_t pulse_length
    pulse_delay,        \* static uint16_t pulse_delay
    pulse_start,        \* hal.stepper.pulse_start
    next_step_outbits,  \* static axes_signals_t next_step_outbits
    vectorTable,        \* vectorTable[IRQnum + 16] for the interrupts of IrqIds
    irqEnabled,         \* global interrupt enable (PRIMASK clear)
    word,               \* the volatile word an atomic helper updates (*ptr)
    st,                 \* the planner's stepper_t handed to pulse_start
    stepPins,           \* levels of stepX, stepY, stepZ (bits 0..2)
    dirPins,            \* levels of dirX, dirY, dirZ (bits 0..2)
    enablePin,          \* level of steppersEnable
    tc3,                \* STEP_TIMER (pulse timer): CC[0], COUNT, running,
                        \*   INTFLAG.MC0, CTRLA.ENABLE
    tc4,                \* STEPPER_TIMER (cycle timer): CC[0], COUNT, running,
                        \*   INTFLAG.MC0
    fgPC,               \* foreground: statement about to execute
    fgArg,              \* foreground: argument of the running operation
    cycPC,              \* cycle-timer interrupt: statement about to execute
    pulPC,              \* pulse-timer interrupt: statement about to execute
    \* ---- observers (history variables, never read by the program) ----
    pulseTicks,         \* pulse timer ticks counted since the last RETRIGGER
    watch,              \* the pulse cycle being observed: phase and pattern
    owed,               \* step_out of the latest delayed command while the
                        \*   delay-elapsed handler has not written it (else 0)
    dwrite,             \* last write of the delay-elapsed handler
    idleHold,           \* go_idle(true) returned, no pulse_start since
    rcStopped,          \* go_idle returned, wake_up has not restarted the timer
    cptArg,             \* argument of the most recent cycles_per_tick
    afterDelay,         \* the delay-elapsed handler has returned and no call
                        \*   of pulse_start has followed: phase, and the pulse
                        \*   timer ticks counted since that return
    \* ---- the 1 ms delay service ----
    delay_ms,           \* static delay_t delay_ms: ms and callback
    sysTickOn,          \* SysTick->CTRL & SysTick_CTRL_ENABLE_Msk
    delayPC,            \* driver_delay_ms: statement about to execute
    delayArg,           \* driver_delay_ms: its arguments ms and callback
    delayObs,           \* observer: ticks handled and callbacks invoked
                        \*   since the latest store of delay_ms.ms
    \* ---- the serial stream (serial.c, usb_serial.cpp) ----
    usbCdc,             \* USB_SERIAL_CDC: the build connects the USB stream
    rxbuf,              \* static stream_rx_buffer_t rxbuf of the stream
    txbuf,              \* static stream_rx_buffer_t txbuf (serial.c)
    usart,              \* sercom->USART: received character and FERR,
                        \*   transmit data register, INTENSET.DRE
    usbIn,              \* characters SerialUSB holds for reading
    serPC,              \* serialGetC / serialPutC: statement about to execute
    serLoc,             \* their locals and argument
    serRet,             \* their latest return value
    rxHeld,             \* observer: characters stored and not yet returned
    txLog,              \* observer: characters accepted by serialPutC, in
                        \*   call order, and characters sent on the wire
    \* ---- the I2C master (i2c.c) ----
    i2c,                \* static i2c_trans_t i2c: state, count, data
    i2cPort,            \* i2c_port->I2CM: bus state, transfer under way,
                        \*   interrupt requested
    i2cPC,              \* the caller: "idle", or "wait" in while(i2cIsBusy)
    i2cLog              \* observer: the latest call and what the handler
                        \*   has done for it

prog == <<amass, irqEnabled, word, settings, pulse_length, pulse_delay,
          pulse_start, next_step_outbits, vectorTable, st, stepPins, dirPins,
          enablePin, tc3, tc4, fgPC, fgArg, cycPC, pulPC>>

obs == <<pulseTicks, watch, owed, dwrite, idleHold, rcStopped, cptArg,
         afterDelay>>

\* the 1 ms delay service (driver_delay_ms and the SysTick interrupt)
delayVars == <<delay_ms, sysTickOn, delayPC, delayArg, delayObs>>

\* the serial stream
serialVars == <<usbCdc, rxbuf, txbuf, usart, usbIn, serPC, serLoc, serRet,
                rxHeld, txLog>>

\* the I2C master
i2cVars == <<i2c, i2cPort, i2cPC, i2cLog>>

periph == <<delayVars, serialVars, i2cVars>>

\* what an action of one service leaves alone
restOfDelay == <<prog, obs, serialVars, i2cVars>>

restOfSerial == <<prog, obs, delayVars, i2cVars>>

restOfI2c == <<prog, obs, delayVars, serialVars>>

vars == <<prog, obs, periph>>

(***************************************************************************)
(* The 1 ms delay service: driver_delay_ms, called by the foreground, and  *)
(* the SysTick interrupt.  Only these two touch delay_ms; the handler      *)
(* cannot be interrupted by the foreground, so it is one step, while the   *)
(* foreground call is one step per access of delay_ms and SysTick.  A      *)
(* callback is a nonzero identifier, NULL is 0.                            *)
(***************************************************************************)
DelayMs == {0, 1, 2}

DelayCallbacks == {1, 2}

\* ticks the observer counts
DelayTickCap == 3

NoDelayObs == [ticks |-> 0, calls |-> 0, at |-> 0, where |-> "none",
               stale |-> FALSE]

\* static delay_t delay_ms = { .ms = 1, .callback = NULL }; SysTick is
\* configured but not enabled by driver_init; no call has been made
DelayInit ==
    /\ delay_ms = [ms |-> 1, callback |-> 0]
    /\ sysTickOn = FALSE
    /\ delayPC = "idle"
    /\ delayArg = [ms |-> 0, callback |-> 0]
    /\ delayObs = NoDelayObs

\* the foreground calls hal.delay_ms(ms, callback)
DelayCall ==
    /\ delayPC = "idle"
    /\ \E ms \in DelayMs : \E callback \in {0} \cup DelayCallbacks :
          delayArg' = [ms |-> ms, callback |-> callback]
    /\ delayPC' = "dm_ms"
    /\ delayObs' = NoDelayObs
    /\ UNCHANGED <<delay_ms, sysTickOn>>
    /\ UNCHANGED restOfDelay

\* if((delay_ms.ms = ms) > 0) ... else if(callback)
DelayStoreMs ==
    /\ delayPC = "dm_ms"
    /\ delay_ms' = [delay_ms EXCEPT !.ms = delayArg.ms]
    /\ delayPC' = IF delayArg.ms > 0 THEN "dm_enable"
                  ELSE IF delayArg.callback # 0 THEN "dm_call"
                  ELSE "idle"
    /\ UNCHANGED <<sysTickOn, delayArg, delayObs>>

\* SysTick->CTRL |= SysTick_CTRL_ENABLE_Msk;
DelayEnable ==
    /\ delayPC = "dm_enable"
    /\ sysTickOn' = TRUE
    /\ delayPC' = "dm_cb"
    /\ UNCHANGED <<delay_ms, delayArg, delayObs>>

\* if(!(delay_ms.callback = callback))
DelayStoreCallback ==
    /\ delayPC = "dm_cb"
    /\ delay_ms' = [delay_ms EXCEPT !.callback = delayArg.callback]
    /\ delayPC' = IF delayArg.callback = 0 THEN "dm_wait" ELSE "idle"
    /\ UNCHANGED <<sysTickOn, delayArg, delayObs>>

\* while(delay_ms.ms) grbl.on_execute_delay(state_get()); the loop is left
\* when delay_ms.ms reads zero
DelayWait ==
    /\ delayPC = "dm_wait"
    /\ delay_ms.ms = 0
    /\ delayPC' = "idle"
    /\ UNCHANGED <<delay_ms, sysTickOn, delayArg, delayObs>>

\* else if(callback) callback();
DelayCallNow ==
    /\ delayPC = "dm_call"
    /\ delayObs' = [delayObs EXCEPT !.calls = Min(delayObs.calls + 1, 2),
                                    !.at = delayObs.ticks,
                                    !.where = "foreground"]
    /\ delayPC' = "idle"
    /\ UNCHANGED <<delay_ms, sysTickOn, delayArg>>

driver_delay_ms ==
    /\ \/ DelayStoreMs
       \/ DelayEnable
       \/ DelayStoreCallback
       \/ DelayWait
       \/ DelayCallNow
    /\ UNCHANGED restOfDelay

\* the handler decrements a nonzero delay_ms.ms and, when it reaches zero
\* with a callback stored, calls the callback and clears it.  The observer
\* counts the ticks handled since the store of ms and records the
\* invocation: of the requested callback, or of another one (stale)
SysTick_IRQHandler ==
    /\ sysTickOn
    /\ LET fires == delay_ms.ms = 1 /\ delay_ms.callback # 0
           counted == delayPC # "dm_ms"
           ticks == IF counted THEN Min(delayObs.ticks + 1, DelayTickCap)
                    ELSE delayObs.ticks
       IN  /\ delay_ms' = [ms |-> IF delay_ms.ms > 0 THEN delay_ms.ms - 1
                                  ELSE 0,
                           callback |-> IF fires THEN 0
                                        ELSE delay_ms.callback]
           /\ delayObs' =
                 IF ~counted THEN delayObs
                 ELSE IF ~fires THEN [delayObs EXCEPT !.ticks = ticks]
                 ELSE IF delay_ms.callback = delayArg.callback
                         /\ delayArg.ms > 0
                 THEN [delayObs EXCEPT !.ticks = ticks,
                                       !.calls = Min(delayObs.calls + 1, 2),
                                       !.at = ticks,
                                       !.where = "tick"]
                 ELSE [delayObs EXCEPT !.ticks = ticks, !.stale = TRUE]
    /\ UNCHANGED <<sysTickOn, delayPC, delayArg>>
    /\ UNCHANGED restOfDelay

(***************************************************************************)
(* The serial stream.  The build connects either the UART stream           *)
(* (serial.c) or the USB stream (usb_serial.cpp); each has its own static  *)
(* rxbuf, modelled by the one variable since only one is connected.  The   *)
(* UART handler runs in interrupt context and is one step, the foreground  *)
(* functions serialGetC and serialPutC are one step per access of the      *)
(* shared buffer or of the USART; the USB functions all run in the         *)
(* foreground.  The ring size stands for RX_BUFFER_SIZE (a power of two in *)
(* the build, where & (size - 1) equals the remainder taken here).         *)
(***************************************************************************)
RX_BUFFER_SIZE == 4

BLOCK_RX_BUFFER_SIZE == 20

\* characters: two data characters and one realtime command character
RxData == {1, 2}

RealtimeChar == 3

RxChars == RxData \cup {RealtimeChar}

\* the result of enqueue_realtime_command(c): true for a realtime command
\* character, which is then not to be stored
enqueue_realtime_command(c) == c = RealtimeChar

\* BUFNEXT(ptr, buffer): (ptr + 1) & (sizeof(buffer.data) - 1)
BUFNEXT(ptr) == (ptr + 1) % RX_BUFFER_SIZE

\* BUFCOUNT(head, tail, size)
BUFCOUNT(head, tail) ==
    IF head >= tail THEN head - tail ELSE RX_BUFFER_SIZE - tail + head

\* serialRxFree / usbRxFree
RxFree(buf) == (RX_BUFFER_SIZE - 1) - BUFCOUNT(buf.head, buf.tail)

\* the characters in a ring buffer from tail up to head, oldest first
RECURSIVE RingFrom(_, _, _)
RingFrom(buf, from, n) ==
    IF n = 0 THEN <<>>
    ELSE <<buf.data[from]>> \o RingFrom(buf, BUFNEXT(from), n - 1)

RingContents(buf) == RingFrom(buf, buf.tail, BUFCOUNT(buf.head, buf.tail))

EmptyRing == [head |-> 0, tail |-> 0,
              data |-> [i \in 0 .. RX_BUFFER_SIZE - 1 |-> 0]]

\* static stream_rx_buffer_t rxbuf = {0}, txbuf = {0}; the USART enabled
\* with an empty transmit data register and only RXC and ERROR interrupts
SerialInit(builds) ==
    /\ usbCdc \in builds
    /\ rxbuf = [head |-> 0, tail |-> 0, data |-> EmptyRing.data,
                overflow |-> 0]
    /\ txbuf = EmptyRing
    /\ usart = [rxc |-> 0, ferr |-> FALSE, txd |-> 0, inten |-> FALSE]
    /\ usbIn = <<>>
    /\ serPC = "idle"
    /\ serLoc = [tail |-> 0, data |-> 0, c |-> 0, next_head |-> 0,
                 tmpbuf |-> <<>>, txAtCall |-> EmptyRing]
    /\ serRet = 0
    /\ rxHeld = <<>>
    /\ txLog = [accepted |-> <<>>, wire |-> <<>>, calls |-> 0]


\* sercom->USART.INTFLAG.bit.DRE: the transmit data register is empty
DRE == usart.txd = 0

\* variant of RxInsert that stores without looking at tail
RxInsert_NoFullCheck(buf, c) ==
    [buf EXCEPT !.data[buf.head] = c, !.head = BUFNEXT(buf.head)]

\* uint16_t next_head = BUFNEXT(rxbuf.head, rxbuf);
\* if(next_head == rxbuf.tail) rxbuf.overflow = 1;
\* else { rxbuf.data[rxbuf.head] = data; rxbuf.head = next_head; }
RxInsert(buf, c) ==
    IF BUFNEXT(buf.head) = buf.tail
    THEN [buf EXCEPT !.overflow = 1]
    ELSE [buf EXCEPT !.data[buf.head] = c, !.head = BUFNEXT(buf.head)]

\* if(!enqueue_realtime_command(data)) { ... }
RxReceive(buf, c) ==
    IF enqueue_realtime_command(c) THEN buf ELSE RxInsert(buf, c)

\* whether RxReceive stores c
RxStores(buf, c) == RxReceive(buf, c).head # buf.head

\* the SERCOM interrupt is requested: a character has been received, or
\* the data register is empty with that interrupt enabled.  The handler may
\* run at once or after further foreground statements (interrupt latency,
\* PRIMASK set by the caller).
SerialIrqPending == usart.rxc # 0 \/ (usart.inten /\ DRE)

\* the UART has received a character, with or without a framing error
SerialArrive(chars) ==
    /\ ~usbCdc
    /\ usart.rxc = 0
    /\ \E c \in chars : \E ferr \in BOOLEAN :
          usart' = [usart EXCEPT !.rxc = c, !.ferr = ferr]
    /\ UNCHANGED <<usbCdc, rxbuf, txbuf, usbIn, serPC, serLoc, serRet,
                   rxHeld, txLog>>
    /\ UNCHANGED restOfSerial

\* the shift register takes the character from the transmit data register
\* and sends it; INTFLAG.DRE is set again
UartShift ==
    /\ ~usbCdc
    /\ usart.txd # 0
    /\ usart' = [usart EXCEPT !.txd = 0]
    /\ txLog' = [txLog EXCEPT !.wire = Append(txLog.wire, usart.txd)]
    /\ UNCHANGED <<usbCdc, rxbuf, txbuf, usbIn, serPC, serLoc, serRet,
                   rxHeld>>
    /\ UNCHANGED restOfSerial

\* SERIAL_IRQHandler, taken for a received character or error, or for DRE
\* when that interrupt is enabled.  A character with a framing error is
\* read and discarded; any other goes through RxReceive.  Then, if the
\* transmit data register is empty, the next queued character is written to
\* it and the DRE interrupt is disabled when the queue is (or becomes) empty.
SERIAL_IRQHandler ==
    /\ ~usbCdc
    /\ SerialIrqPending
    /\ LET taken == usart.rxc # 0 /\ ~usart.ferr
           sends == DRE /\ txbuf.tail # txbuf.head
           tail == IF sends THEN BUFNEXT(txbuf.tail) ELSE txbuf.tail
       IN  /\ rxbuf' = IF taken THEN RxReceive(rxbuf, usart.rxc) ELSE rxbuf
           /\ rxHeld' = IF taken /\ RxStores(rxbuf, usart.rxc)
                        THEN Append(rxHeld, usart.rxc) ELSE rxHeld
           /\ txbuf' = [txbuf EXCEPT !.tail = tail]
           /\ usart' = [rxc |-> 0, ferr |-> FALSE,
                        txd |-> IF sends THEN txbuf.data[txbuf.tail]
                                ELSE usart.txd,
                        inten |-> IF DRE /\ tail = txbuf.head THEN FALSE
                                  ELSE usart.inten]
    /\ UNCHANGED <<usbCdc, usbIn, serPC, serLoc, serRet, txLog>>
    /\ UNCHANGED restOfSerial

\* the foreground calls serialGetC()
GetCall ==
    /\ ~usbCdc
    /\ serPC = "idle"
    /\ serPC' = "gc_tail"
    /\ UNCHANGED <<usbCdc, rxbuf, txbuf, usart, usbIn, serLoc, serRet,
                   rxHeld, txLog>>
    /\ UNCHANGED restOfSerial

\* uint_fast16_t tail = rxbuf.tail;
GetTail ==
    /\ serPC = "gc_tail"
    /\ serLoc' = [serLoc EXCEPT !.tail = rxbuf.tail]
    /\ serPC' = "gc_head"
    /\ UNCHANGED <<rxbuf, serRet, rxHeld>>

\* if(tail == rxbuf.head) return -1;
GetHead ==
    /\ serPC = "gc_head"
    /\ IF serLoc.tail = rxbuf.head
       THEN serRet' = 0 - 1 /\ serPC' = "idle"
       ELSE serPC' = "gc_data" /\ UNCHANGED serRet
    /\ UNCHANGED <<rxbuf, serLoc, rxHeld>>

\* char data = rxbuf.data[tail];
GetData ==
    /\ serPC = "gc_data"
    /\ serLoc' = [serLoc EXCEPT !.data = rxbuf.data[serLoc.tail]]
    /\ serPC' = "gc_store"
    /\ UNCHANGED <<rxbuf, serRet, rxHeld>>

\* variant of GetStore that returns the character and leaves tail
GetStore_KeepTail ==
    /\ serPC = "gc_store"
    /\ serRet' = serLoc.data
    /\ rxHeld' = IF rxHeld = <<>> THEN rxHeld ELSE Tail(rxHeld)
    /\ serPC' = "idle"
    /\ UNCHANGED <<rxbuf, serLoc>>

\* rxbuf.tail = BUFNEXT(tail, rxbuf); return (int16_t)data;
GetStore ==
    /\ serPC = "gc_store"
    /\ rxbuf' = [rxbuf EXCEPT !.tail = BUFNEXT(serLoc.tail)]
    /\ serRet' = serLoc.data
    /\ rxHeld' = IF rxHeld = <<>> THEN rxHeld ELSE Tail(rxHeld)
    /\ serPC' = "idle"
    /\ UNCHANGED serLoc

serialGetC ==
    /\ \/ GetTail
       \/ GetHead
       \/ GetData
       \/ GetStore
    /\ UNCHANGED <<usbCdc, txbuf, usart, usbIn, txLog>>
    /\ UNCHANGED restOfSerial

\* calls of serialPutC in a run of the model
TxMaxCalls == 5

\* the foreground calls serialPutC(c); the characters are numbered in call
\* order.  txAtCall remembers the transmit buffer as it was at the call.
PutCall ==
    /\ ~usbCdc
    /\ serPC = "idle"
    /\ txLog.calls < TxMaxCalls
    /\ txLog' = [txLog EXCEPT !.calls = txLog.calls + 1]
    /\ serLoc' = [serLoc EXCEPT !.c = txLog.calls + 1, !.txAtCall = txbuf]
    /\ serPC' = "pc_chk"
    /\ UNCHANGED <<usbCdc, rxbuf, txbuf, usart, usbIn, serRet, rxHeld>>
    /\ UNCHANGED restOfSerial

\* variant of PutCheck that always tries the data register first
PutCheck_AlwaysDirect ==
    /\ serPC = "pc_chk"
    /\ serPC' = "pc_dre"
    /\ UNCHANGED <<txbuf, usart, serLoc, serRet, txLog>>

\* if(txbuf.head != txbuf.tail || ...
PutCheck ==
    /\ serPC = "pc_chk"
    /\ serPC' = IF txbuf.head # txbuf.tail THEN "pc_next" ELSE "pc_dre"
    /\ UNCHANGED <<txbuf, usart, serLoc, serRet, txLog>>

\* serialPutCNonBlocking: if((ok = sercom->USART.INTFLAG.bit.DRE))
PutDre ==
    /\ serPC = "pc_dre"
    /\ serPC' = IF DRE THEN "pc_data" ELSE "pc_next"
    /\ UNCHANGED <<txbuf, usart, serLoc, serRet, txLog>>

\* sercom->USART.DATA.reg = c; return ok; ... return true;
PutDirect ==
    /\ serPC = "pc_data"
    /\ usart' = [usart EXCEPT !.txd = serLoc.c]
    /\ txLog' = [txLog EXCEPT !.accepted = Append(txLog.accepted, serLoc.c)]
    /\ serRet' = 1
    /\ serPC' = "idle"
    /\ UNCHANGED <<txbuf, serLoc>>

\* uint16_t next_head = BUFNEXT(txbuf.head, txbuf);
PutNext ==
    /\ serPC = "pc_next"
    /\ serLoc' = [serLoc EXCEPT !.next_head = BUFNEXT(txbuf.head)]
    /\ serPC' = "pc_full"
    /\ UNCHANGED <<txbuf, usart, serRet, txLog>>

\* while(txbuf.tail == next_head) { if(!hal.stream_blocking_callback())
\* return false; } -- the callback's answer is an input
PutFull ==
    /\ serPC = "pc_full"
    /\ IF txbuf.tail = serLoc.next_head
       THEN \E blocking \in BOOLEAN :
               IF blocking
               THEN UNCHANGED <<serPC, serRet>>
               ELSE serRet' = 0 /\ serPC' = "idle"
       ELSE serPC' = "pc_put" /\ UNCHANGED serRet
    /\ UNCHANGED <<txbuf, usart, serLoc, txLog>>

\* txbuf.data[txbuf.head] = c;
PutData ==
    /\ serPC = "pc_put"
    /\ txbuf' = [txbuf EXCEPT !.data[txbuf.head] = serLoc.c]
    /\ serPC' = "pc_head"
    /\ UNCHANGED <<usart, serLoc, serRet, txLog>>

\* txbuf.head = next_head;
PutHead ==
    /\ serPC = "pc_head"
    /\ txbuf' = [txbuf EXCEPT !.head = serLoc.next_head]
    /\ serPC' = "pc_int"
    /\ UNCHANGED <<usart, serLoc, serRet, txLog>>

\* sercom->USART.INTENSET.reg = SERCOM_USART_INTENSET_DRE; ... return true;
PutIntEnable ==
    /\ serPC = "pc_int"
    /\ usart' = [usart EXCEPT !.inten = TRUE]
    /\ txLog' = [txLog EXCEPT !.accepted = Append(txLog.accepted, serLoc.c)]
    /\ serRet' = 1
    /\ serPC' = "idle"
    /\ UNCHANGED <<txbuf, serLoc>>

serialPutC ==
    /\ \/ PutCheck
       \/ PutDre
       \/ PutDirect
       \/ PutNext
       \/ PutFull
       \/ PutData
       \/ PutHead
       \/ PutIntEnable
    /\ UNCHANGED <<usbCdc, rxbuf, usbIn, rxHeld>>
    /\ UNCHANGED restOfSerial

\* most characters the model lets wait in the USB driver
UsbMaxIn == 2

\* the USB driver has received a character; it waits in SerialUSB until
\* read.  whenFull records whether the ring buffer was full at that moment.
UsbArrive(chars) ==
    /\ usbCdc
    /\ Len(usbIn) < UsbMaxIn
    /\ \E c \in chars :
          usbIn' = Append(usbIn, [c |-> c, whenFull |-> RxFree(rxbuf) = 0])
    /\ UNCHANGED <<usbCdc, rxbuf, txbuf, usart, serPC, serLoc, serRet,
                   rxHeld, txLog>>
    /\ UNCHANGED restOfSerial

\* the ring buffer after the while(avail--) loop has gone through chars
RECURSIVE RxReceiveAll(_, _)
RxReceiveAll(buf, chars) ==
    IF chars = <<>> THEN buf
    ELSE RxReceiveAll(RxReceive(buf, Head(chars).c), Tail(chars))

\* the characters of chars that the loop stores, in order
RECURSIVE RxStoredOf(_, _)
RxStoredOf(buf, chars) ==
    IF chars = <<>> THEN <<>>
    ELSE (IF RxStores(buf, Head(chars).c) THEN <<Head(chars).c>> ELSE <<>>)
         \o RxStoredOf(RxReceive(buf, Head(chars).c), Tail(chars))

\* if((avail = SerialUSB.available())) { free = usbRxFree(); free = free >
\* BLOCK_RX_BUFFER_SIZE ? BLOCK_RX_BUFFER_SIZE : free; avail = avail > free
\* ? free : avail; SerialUSB.readBytes(tmpbuf, avail);
UsbExecRead ==
    /\ usbCdc
    /\ serPC = "idle"
    /\ usbIn # <<>>
    /\ LET free == Min(RxFree(rxbuf), BLOCK_RX_BUFFER_SIZE)
           avail == Min(Len(usbIn), free)
       IN  /\ serLoc' = [serLoc EXCEPT !.tmpbuf = SubSeq(usbIn, 1, avail)]
           /\ usbIn' = SubSeq(usbIn, avail + 1, Len(usbIn))
    /\ serPC' = "ux_loop"
    /\ UNCHANGED <<rxbuf, rxHeld>>

\* while(avail--) { c = *dp++; if(!enqueue_realtime_command(c)) ... }
UsbExecLoop ==
    /\ serPC = "ux_loop"
    /\ rxbuf' = RxReceiveAll(rxbuf, serLoc.tmpbuf)
    /\ rxHeld' = rxHeld \o RxStoredOf(rxbuf, serLoc.tmpbuf)
    /\ serLoc' = [serLoc EXCEPT !.tmpbuf = <<>>]
    /\ serPC' = "idle"
    /\ UNCHANGED usbIn

usb_execute_realtime ==
    /\ \/ UsbExecRead
       \/ UsbExecLoop
    /\ UNCHANGED <<usbCdc, txbuf, usart, serRet, txLog>>
    /\ UNCHANGED restOfSerial

\* usbGetC: all of it runs in the foreground, where nothing else touches
\* the USB rxbuf
usbGetC ==
    /\ usbCdc
    /\ serPC = "idle"
    /\ IF rxbuf.tail = rxbuf.head
       THEN /\ serRet' = 0 - 1
            /\ UNCHANGED <<rxbuf, rxHeld>>
       ELSE /\ serRet' = rxbuf.data[rxbuf.tail]
            /\ rxbuf' = [rxbuf EXCEPT !.tail = BUFNEXT(rxbuf.tail)]
            /\ rxHeld' = Tail(rxHeld)
    /\ UNCHANGED <<usbCdc, txbuf, usart, usbIn, serPC, serLoc, txLog>>
    /\ UNCHANGED restOfSerial

(***************************************************************************)
(* The I2C master.  A call stores count, data and state and writes ADDR,   *)
(* which starts the transfer; the SERCOM then requests an interrupt each   *)
(* time the address or a byte has gone out or a byte has come in.  The     *)
(* handler runs at the highest priority and is one step.  The buffer byte  *)
(* at index i is i + 1, so that order shows; received bytes are counted.   *)
(***************************************************************************)
\* most bytes asked for in a call
I2cMaxBytes == 3

\* the handler is followed until it has stored this many bytes
I2cStoreCap == 5

NoI2cLog == [op |-> "none", n |-> 0, sent |-> <<>>, stored |-> 0, acks |-> 0,
             nacks |-> 0, stops |-> 0, irqs |-> 0, err |-> FALSE,
             wrapped |-> FALSE]

\* static i2c_trans_t i2c = {0}; the bus idle (BUSSTATE 1)
I2cInit ==
    /\ i2c = [state |-> "Idle", count |-> 0, data |-> 0]
    /\ i2cPort = [busstate |-> 1, xfer |-> FALSE, irq |-> FALSE]
    /\ i2cPC = "idle"
    /\ i2cLog = NoI2cLog

PeriphInit == DelayInit /\ SerialInit({FALSE}) /\ I2cInit

\* #define i2cIsBusy
i2cIsBusy ==
    \/ ~(i2c.state = "Idle" \/ i2c.state = "Error")
    \/ ~(i2cPort.busstate = 1 \/ i2cPort.busstate = 2)

\* uint16_t arithmetic: --i2c.count
DecCount(count) == (count + 65535) % 65536

\* i2c.state = bytes == 0 ? I2CState_AwaitCompletion : (bytes == 1 ?
\* I2CState_SendLast : I2CState_SendNext);
SendState(bytes) ==
    IF bytes = 0 THEN "AwaitCompletion"
    ELSE IF bytes = 1 THEN "SendLast" ELSE "SendNext"

\* bytes == 1 ? I2CState_ReceiveLast : (bytes == 2 ?
\* I2CState_ReceiveNextToLast : I2CState_ReceiveNext)
ReceiveState(bytes) ==
    IF bytes = 1 THEN "ReceiveLast"
    ELSE IF bytes = 2 THEN "ReceiveNextToLast" ELSE "ReceiveNext"

\* a call from a caller that found the bus free: count, data and state are
\* stored and ADDR is written, which makes the master own the bus and
\* start the transfer; with block the caller goes on to while(i2cIsBusy)
I2cStart(op, state, bytes, block) ==
    /\ i2cPC = "idle"
    /\ ~i2cIsBusy
    /\ ~i2cPort.xfer /\ ~i2cPort.irq
    /\ i2c' = [state |-> state, count |-> bytes, data |-> 0]
    /\ i2cPort' = [busstate |-> 2, xfer |-> TRUE, irq |-> FALSE]
    /\ i2cPC' = IF block THEN "wait" ELSE "idle"
    /\ i2cLog' = [NoI2cLog EXCEPT !.op = op, !.n = bytes]
    /\ UNCHANGED restOfI2c

i2c_send ==
    /\ i2cPC = "idle"
    /\ \E bytes \in 0 .. I2cMaxBytes : \E block \in BOOLEAN :
          I2cStart("send", SendState(bytes), bytes, block)

i2c_receive ==
    /\ i2cPC = "idle"
    /\ \E bytes \in 0 .. I2cMaxBytes : \E block \in BOOLEAN :
          I2cStart("receive", ReceiveState(bytes), bytes, block)

I2C_ReadRegister ==
    /\ i2cPC = "idle"
    /\ \E bytes \in 0 .. I2cMaxBytes : \E block \in BOOLEAN :
          I2cStart("register", "SendRegisterAddress", bytes, block)

\* if(block) while(i2cIsBusy); return
I2cWaitDone ==
    /\ i2cPC = "wait"
    /\ ~i2cIsBusy
    /\ i2cPC' = "idle"
    /\ UNCHANGED <<i2c, i2cPort, i2cLog>>
    /\ UNCHANGED restOfI2c

\* the SERCOM has finished the part of the transfer it was given and sets
\* INTFLAG.MB or INTFLAG.SB
I2cBusEvent ==
    /\ i2cPort.xfer
    /\ i2cPort' = [i2cPort EXCEPT !.xfer = FALSE, !.irq = TRUE]
    /\ UNCHANGED <<i2c, i2cPC, i2cLog>>
    /\ UNCHANGED restOfI2c

\* variant of SendNextState that leaves SendNext when the count reaches 0
SendNextState_AtZero(count) ==
    IF count = 0 THEN "SendLast" ELSE "SendNext"

\* case I2CState_SendNext: if(--i2c.count == 1) i2c.state = SendLast;
SendNextState(count) ==
    IF count = 1 THEN "SendLast" ELSE "SendNext"

\* case I2CState_ReceiveNext: if(--i2c.count == 2) i2c.state =
\* I2CState_ReceiveNextToLast;
ReceiveNextState(count) ==
    IF count = 2 THEN "ReceiveNextToLast" ELSE "ReceiveNext"

\* I2C_interrupt_handler.  The test of INTFLAG.SB && INTFLAG.MB is an input
\* from the hardware (buserr); if it holds a stop is issued and the state
\* becomes Error before the switch.
I2C_interrupt_handler ==
    /\ i2cPort.irq
    /\ i2cLog.stored <= I2cStoreCap
    /\ \E buserr \in BOOLEAN :
          LET state == IF buserr THEN "Error" ELSE i2c.state
              dec == DecCount(i2c.count)
              writes == state \in {"SendNext", "SendLast",
                                   "SendRegisterAddress"}
              reads == state \in {"ReceiveNext", "ReceiveNextToLast",
                                  "ReceiveLast"}
              acks == state \in {"ReceiveNext", "ReceiveNextToLast"}
              stops == buserr \/ state \in {"AwaitCompletion", "ReceiveLast"}
              goes == writes \/ acks \/ state = "Restart"
              next ==
                  CASE state = "SendNext" -> SendNextState(dec)
                    [] state = "SendLast" -> "AwaitCompletion"
                    [] state = "AwaitCompletion" -> "Idle"
                    [] state = "SendRegisterAddress" -> "Restart"
                    [] state = "Restart" -> ReceiveState(i2c.count)
                    [] state = "ReceiveNext" -> ReceiveNextState(dec)
                    [] state = "ReceiveNextToLast" -> "ReceiveLast"
                    [] state = "ReceiveLast" -> "Idle"
                    [] OTHER -> state
              count ==
                  CASE state \in {"SendNext", "ReceiveNext",
                                  "ReceiveNextToLast"} -> dec
                    [] state \in {"AwaitCompletion", "ReceiveLast"} -> 0
                    [] OTHER -> i2c.count
              data ==
                  IF state \in {"SendNext", "ReceiveNext",
                                "ReceiveNextToLast"}
                  THEN i2c.data + 1 ELSE i2c.data
          IN  /\ i2c' = [state |-> next, count |-> count, data |-> data]
              /\ i2cPort' = [busstate |-> IF stops THEN 1
                                          ELSE i2cPort.busstate,
                             xfer |-> goes, irq |-> FALSE]
              /\ i2cLog' =
                    [i2cLog EXCEPT
                       !.sent = IF writes THEN Append(@, i2c.data + 1)
                                ELSE @,
                       !.stored = IF reads THEN @ + 1 ELSE @,
                       !.acks = IF acks THEN @ + 1 ELSE @,
                       !.nacks = IF state = "ReceiveLast" THEN @ + 1 ELSE @,
                       !.stops = IF stops THEN @ + 1 ELSE @,
                       !.irqs = @ + 1,
                       !.err = @ \/ buserr,
                       !.wrapped = @ \/ (count > i2c.count)]
    /\ UNCHANGED i2cPC
    /\ UNCHANGED restOfI2c

ImmediateFn == "stepperPulseStart"
DelayedFn == "stepperPulseStartDelayed"
EndPulseHandler == "STEPPULSE_IRQHandler"
DelayHandler == "STEPPULSE_Delayed_IRQHandler"

CycleHandler == "STEPPER_IRQHandler"
SysTickHandler == "SysTick_IRQHandler"
Dummy_Handler == "Dummy_Handler"

NoWatch == [ph |-> "none", pat |-> 0, at |-> 0]

NoAfter == [ph |-> "no", ticks |-> 0]

(***************************************************************************)
(* Interrupt vector registry                                               *)
(***************************************************************************)
\* the interrupts whose vector table entries are tracked
IrqIds == {SysTick_IRQn, STEP_TIMER_IRQn, STEPPER_TIMER_IRQn}

\* variant of IRQRegister that installs the handler in every entry
IRQRegister_All(IRQnum, IRQhandler) ==
    [i \in DOMAIN vectorTable |-> IRQhandler]

\* IRQRegister: vectorTable[IRQnum + 16] = (uint32_t)IRQhandler
IRQRegister(IRQnum, IRQhandler) ==
    [vectorTable EXCEPT ![IRQnum + VECTOR_OFFSET] = IRQhandler]

\* IRQUnRegister: vectorTable[IRQnum + 16] = (uint32_t)Dummy_Handler
IRQUnRegister(IRQnum) ==
    [vectorTable EXCEPT ![IRQnum + VECTOR_OFFSET] = Dummy_Handler]

\* the handler the NVIC dispatches an interrupt to: the table entry
Vector(IRQnum) == vectorTable[IRQnum + VECTOR_OFFSET]

(***************************************************************************)
(* Output latch                                                            *)
(***************************************************************************)
\* variant of set_step_outputs that ignores the step invert mask
set_step_outputs_NoInvert(step_outbits) ==
    DIGITAL_OUT(DIGITAL_OUT(DIGITAL_OUT(stepPins, 0, Bit(step_outbits, 0)),
                            1, Bit(step_outbits, 1)), 2, Bit(step_outbits, 2))

\* set_step_outputs: the new levels of stepX, stepY, stepZ
set_step_outputs(step_outbits) ==
    LET v == Xor(step_outbits, settings.step_invert)
    IN  DIGITAL_OUT(DIGITAL_OUT(DIGITAL_OUT(stepPins, 0, Bit(v, 0)),
                                1, Bit(v, 1)), 2, Bit(v, 2))

\* variant of set_dir_outputs that drives dirX from .y and dirY from .x
set_dir_outputs_Swapped(dir_outbits) ==
    LET v == Xor(dir_outbits, settings.dir_invert)
    IN  DIGITAL_OUT(DIGITAL_OUT(DIGITAL_OUT(dirPins, 0, Bit(v, 1)),
                                1, Bit(v, 0)), 2, Bit(v, 2))

\* set_dir_outputs: the new levels of dirX, dirY, dirZ
set_dir_outputs(dir_outbits) ==
    LET v == Xor(dir_outbits, settings.dir_invert)
    IN  DIGITAL_OUT(DIGITAL_OUT(DIGITAL_OUT(dirPins, 0, Bit(v, 0)),
                                1, Bit(v, 1)), 2, Bit(v, 2))

\* stepperEnable: the new level of steppersEnable (only enable.x is wired)
stepperEnable(enable) ==
    LET v == Xor(enable, settings.enable_invert)
    IN  DIGITAL_OUT(enablePin, 0, Bit(v, 0))

(***************************************************************************)
(* Timing configuration                                                    *)
(***************************************************************************)
\* conversion of an int to int16_t: the low 16 bits, two's complement
Narrow16(x) ==
    LET m == x % 65536
    IN  IF m >= 32768 THEN m - 65536 ELSE m

\* (int16_t)f for a float f whose integral part is x.  Out of the range of
\* int16_t the conversion is undefined: the build either converts to a
\* 32-bit integer and keeps the low 16 bits, or saturates.
FloatToInt16(x) ==
    IF x >= -32768 /\ x <= 32767 THEN {x}
    ELSE {Narrow16(x), IF x > 0 THEN 32767 ELSE -32768}

\* variant of TimerTicks without the lower limit of 2
TimerTicks_NoClamp(us10, offset10) ==
    { Narrow16(y - 1) :
        y \in FloatToInt16(TruncDiv(TICKS_PER_US * (us10 - offset10), 10)) }

\* int16_t t = (int16_t)(24.0f * (us - offset)) - 1;  result = t < 2 ? 2 : t
\* (us10 and offset10 in tenths of a microsecond): the set of the values
\* the build can produce
TimerTicks(us10, offset10) ==
    { IF t < 2 THEN 2 ELSE t :
        t \in { Narrow16(y - 1) :
                  y \in FloatToInt16(TruncDiv(TICKS_PER_US * (us10 - offset10),
                                              10)) } }

\* variant of CyclesReg that compares with <= (lets the ceiling through)
CyclesReg_Inclusive(cycles_per_tick) ==
    IF amass
    THEN (IF cycles_per_tick <= 2^18 THEN cycles_per_tick ELSE 2^18 - 1)
    ELSE (IF cycles_per_tick <= 2^23 THEN cycles_per_tick ELSE 2^23 - 1)

\* variant of CyclesReg that does not clamp
CyclesReg_Unclamped(cycles_per_tick) == cycles_per_tick

\* the value stepperCyclesPerTick writes to STEPPER_TIMER CC[0]
CyclesReg(cycles_per_tick) ==
    IF amass
    THEN (IF cycles_per_tick < 2^18 THEN cycles_per_tick ELSE 2^18 - 1)
    ELSE (IF cycles_per_tick < 2^23 THEN cycles_per_tick ELSE 2^23 - 1)

\* CTRLBSET = TC_CTRLBCLR_CMD_RETRIGGER | TCC_CTRLBSET_ONESHOT on STEP_TIMER:
\* an enabled counter restarts from zero and runs to CC[0] once
Retrigger(t) ==
    IF t.enable THEN [t EXCEPT !.run = TRUE, !.count = 0] ELSE t

RetriggerTicks == IF tc3.enable THEN 0 ELSE pulseTicks

(***************************************************************************)
(* Initial state: driver_setup has run (timers reset and disabled, the     *)
(* handlers registered, IOInitDone set, settings_changed applied once and  *)
(* go_idle(true) called).                                                  *)
(***************************************************************************)
EngineInit(builds, cfgs) ==
    /\ amass \in builds
    /\ settings \in cfgs
    /\ pulse_length \in TimerTicks(settings.pulse_us10, STEP_PULSE_LATENCY10)
    /\ pulse_delay \in IF settings.delay_us10 > 0
                       THEN TimerTicks(settings.delay_us10, STEP_DELAY_OFFSET10)
                       ELSE {0}
    /\ pulse_start = IF settings.delay_us10 > 0 THEN DelayedFn ELSE ImmediateFn
    /\ next_step_outbits = 0
    /\ vectorTable = [i \in {n + VECTOR_OFFSET : n \in IrqIds} |->
                        IF i = SysTick_IRQn + VECTOR_OFFSET THEN SysTickHandler
                        ELSE IF i = STEP_TIMER_IRQn + VECTOR_OFFSET
                        THEN EndPulseHandler
                        ELSE CycleHandler]
    /\ irqEnabled = TRUE
    /\ word = 0
    /\ st = [step_out |-> 0, dir_out |-> 0, dir_changed |-> 0]
    /\ stepPins = settings.step_invert
    /\ dirPins = settings.dir_invert
    /\ enablePin = 0
    /\ tc3 = [cc |-> pulse_length, count |-> 0, run |-> FALSE, flag |-> 0,
              enable |-> FALSE]
    /\ tc4 = [cc |-> 0, count |-> 0, run |-> FALSE, flag |-> 0]
    /\ fgPC = "idle"
    /\ fgArg = 0
    /\ cycPC = "none"
    /\ pulPC = "none"
    /\ pulseTicks = 0
    /\ watch = NoWatch
    /\ owed = 0
    /\ dwrite = [pat |-> 0, want |-> 0]
    /\ idleHold = TRUE
    /\ rcStopped = TRUE
    /\ cptArg = 0
    /\ afterDelay = NoAfter

\* the state after driver_setup and settings_changed, every service at rest
InitWith(builds, cfgs) ==
    /\ EngineInit(builds, cfgs)
    /\ PeriphInit

(***************************************************************************)
(* Start-up.  InitBoot is the state driver_init leaves: pulse_start is     *)
(* stepperPulseStart, the statics are zero, the timers are in reset and    *)
(* only the SysTick handler is registered; the foreground stands before    *)
(* driver_setup.                                                           *)
(***************************************************************************)
InitBoot(cfgs) ==
    /\ amass = FALSE
    /\ settings \in cfgs
    /\ pulse_length = 0
    /\ pulse_delay = 0
    /\ pulse_start = ImmediateFn
    /\ next_step_outbits = 0
    /\ vectorTable = [i \in {n + VECTOR_OFFSET : n \in IrqIds} |->
                        IF i = SysTick_IRQn + VECTOR_OFFSET THEN SysTickHandler
                        ELSE Dummy_Handler]
    /\ irqEnabled = TRUE
    /\ word = 0
    /\ st = [step_out |-> 0, dir_out |-> 0, dir_changed |-> 0]
    /\ stepPins = 0
    /\ dirPins = 0
    /\ enablePin = 0
    /\ tc3 = [cc |-> 0, count |-> 0, run |-> FALSE, flag |-> 0,
              enable |-> FALSE]
    /\ tc4 = [cc |-> 0, count |-> 0, run |-> FALSE, flag |-> 0]
    /\ fgPC = "boot"
    /\ fgArg = 0
    /\ cycPC = "none"
    /\ pulPC = "none"
    /\ pulseTicks = 0
    /\ watch = NoWatch
    /\ owed = 0
    /\ dwrite = [pat |-> 0, want |-> 0]
    /\ idleHold = FALSE
    /\ rcStopped = FALSE
    /\ cptArg = 0
    /\ afterDelay = NoAfter
    /\ PeriphInit

\* settings_changed called before driver_setup: IOInitDone is clear and
\* the body is skipped; only the caller's settings differ afterwards
SettingsBeforeSetup(cfgs) ==
    /\ fgPC = "boot"
    /\ \E cfg \in cfgs : settings' = cfg
    /\ UNCHANGED <<amass, irqEnabled, word, pulse_length, pulse_delay,
                   pulse_start, next_step_outbits, vectorTable, st, stepPins,
                   dirPins, enablePin, tc3, tc4, fgPC, fgArg, cycPC, pulPC>>
    /\ UNCHANGED obs
    /\ UNCHANGED periph

\* driver_setup: timers reset and configured, timer handlers registered,
\* IOInitDone set, settings_changed applied, go_idle(true).  No interrupt
\* can be taken while it runs: both timers are disabled.
driver_setup ==
    /\ fgPC = "boot"
    /\ pulse_length' \in TimerTicks(settings.pulse_us10, STEP_PULSE_LATENCY10)
    /\ pulse_delay' \in IF settings.delay_us10 > 0
                        THEN TimerTicks(settings.delay_us10, STEP_DELAY_OFFSET10)
                        ELSE {pulse_delay}
    /\ pulse_start' = IF settings.delay_us10 > 0 THEN DelayedFn ELSE ImmediateFn
    /\ next_step_outbits' = 0
    /\ vectorTable' = [vectorTable EXCEPT
                         ![STEPPER_TIMER_IRQn + VECTOR_OFFSET] = CycleHandler,
                         ![STEP_TIMER_IRQn + VECTOR_OFFSET] = EndPulseHandler]
    /\ stepPins' = set_step_outputs(0)
    /\ dirPins' = set_dir_outputs(0)
    /\ tc3' = [cc |-> pulse_length', count |-> 0, run |-> FALSE, flag |-> 0,
               enable |-> FALSE]
    /\ tc4' = [cc |-> 0, count |-> 0, run |-> FALSE, flag |-> 0]
    /\ fgPC' = "idle"
    /\ idleHold' = TRUE
    /\ rcStopped' = TRUE
    /\ UNCHANGED <<amass, irqEnabled, word, settings, st, enablePin, fgArg,
                   cycPC, pulPC>>
    /\ UNCHANGED <<pulseTicks, watch, owed, dwrite, cptArg, afterDelay>>
    /\ UNCHANGED periph

(***************************************************************************)
(* Interrupt priorities: NVIC_SetPriority(STEPPER_TIMER_IRQn, 2) and       *)
(* NVIC_SetPriority(STEP_TIMER_IRQn, 1).  A pending interrupt is taken     *)
(* before the next statement of any context of lower priority.             *)
(***************************************************************************)
\* the pulse-timer interrupt preempts a running cycle-timer handler
PulsePreempts == STEP_TIMER_PRIO < STEPPER_TIMER_PRIO

\* the cycle-timer interrupt preempts a running pulse-timer handler
CyclePreempts == STEPPER_TIMER_PRIO < STEP_TIMER_PRIO

\* the NVIC takes the pending pulse-timer interrupt now (of two pending
\* interrupts of equal priority the lower number, STEP_TIMER_IRQn, goes first)
PulseTaken ==
    /\ irqEnabled
    /\ tc3.flag = 1
    /\ pulPC = "none"
    /\ cycPC = "none" \/ PulsePreempts
    /\ ~(CyclePreempts /\ tc4.flag = 1 /\ cycPC = "none")

\* the NVIC takes the pending cycle-timer interrupt now
CycleTaken ==
    /\ irqEnabled
    /\ tc4.flag = 1
    /\ cycPC = "none"
    /\ pulPC = "none" \/ CyclePreempts
    /\ ~(tc3.flag = 1 /\ pulPC = "none" /\ ~CyclePreempts)

PulseRuns ==
    /\ pulPC # "none"
    /\ cycPC = "none" \/ ~CyclePreempts
    /\ ~CycleTaken

CycleRuns ==
    /\ cycPC # "none"
    /\ pulPC = "none" \/ CyclePreempts
    /\ ~PulseTaken

FgRuns ==
    /\ pulPC = "none"
    /\ cycPC = "none"
    /\ ~PulseTaken
    /\ ~CycleTaken

\* first statement of a handler
HandlerEntry(handler) ==
    CASE handler = EndPulseHandler -> "ep_ack"
      [] handler = DelayHandler -> "dl_ack"
      [] handler = CycleHandler -> "irq_ack"
      [] OTHER -> "dummy"

SettingsPCs == {"sc_len", "sc_delay", "sc_next", "sc_reg", "sc_cc"}

\* Pulse state machine Idle: no one-shot running or pending, the end-pulse
\* handler registered, the step outputs at their inactive level
PulseIdle ==
    /\ ~tc3.run
    /\ tc3.flag = 0
    /\ pulPC = "none"
    /\ Vector(STEP_TIMER_IRQn) = EndPulseHandler
    /\ stepPins = settings.step_invert

(***************************************************************************)
(* Hardware events                                                         *)
(***************************************************************************)
\* One tick of the running pulse timer (one-shot, TOP = CC[0]): on reaching
\* CC[0] it raises INTFLAG.MC0, stops and returns to zero.  A count that has
\* passed CC[0] runs on; from TickCap it may wrap to zero.
PulseTimerTick ==
    /\ tc3.run
    /\ LET n == tc3.count + 1
       IN  IF n = tc3.cc
           THEN tc3' = [tc3 EXCEPT !.count = 0, !.run = FALSE, !.flag = 1]
           ELSE \E c \in (IF n < TickCap THEN {n}
                          ELSE IF tc3.count < TickCap THEN {TickCap}
                          ELSE {TickCap, 0}) :
                    tc3' = [tc3 EXCEPT !.count = c]
    /\ pulseTicks' = Min(pulseTicks + 1, TickCap)
    /\ afterDelay' = IF afterDelay.ph = "armed"
                     THEN [ph |-> IF tc3.count + 1 = tc3.cc
                                  THEN "expired" ELSE "armed",
                           ticks |-> Min(afterDelay.ticks + 1, TickCap)]
                     ELSE afterDelay
    /\ UNCHANGED <<amass, irqEnabled, word,
                   settings, pulse_length, pulse_delay, pulse_start,
                   next_step_outbits, vectorTable, st, stepPins, dirPins,
                   enablePin, tc4, fgPC, fgArg, cycPC, pulPC>>
    /\ UNCHANGED <<watch, owed, dwrite, idleHold, rcStopped, cptArg>>
    /\ UNCHANGED periph

\* One tick of the running cycle timer short of its compare value
CycleTimerTick ==
    /\ tc4.run
    /\ tc4.count + 1 < tc4.cc
    /\ tc4.count < CycleCap
    /\ tc4' = [tc4 EXCEPT !.count = tc4.count + 1]
    /\ UNCHANGED <<amass, irqEnabled, word,
                   settings, pulse_length, pulse_delay, pulse_start,
                   next_step_outbits, vectorTable, st, stepPins, dirPins,
                   enablePin, tc3, fgPC, fgArg, cycPC, pulPC>>
    /\ UNCHANGED obs
    /\ UNCHANGED periph

\* The running cycle timer reaches CC[0]: INTFLAG.MC0 is raised and the
\* count starts again from zero.  The time this takes is not modelled: the
\* match may come at any moment while the timer runs.
CycleTimerMatch ==
    /\ tc4.run
    /\ tc4' = [tc4 EXCEPT !.count = 0, !.flag = 1]
    /\ UNCHANGED <<amass, irqEnabled, word,
                   settings, pulse_length, pulse_delay, pulse_start,
                   next_step_outbits, vectorTable, st, stepPins, dirPins,
                   enablePin, tc3, fgPC, fgArg, cycPC, pulPC>>
    /\ UNCHANGED obs
    /\ UNCHANGED periph

(***************************************************************************)
(* Rate controller, task context                                           *)
(***************************************************************************)
\* the foreground calls hal.stepper.wake_up()
CallWakeUp ==
    /\ FgRuns
    /\ fgPC = "idle"
    /\ fgPC' = "wu_enable"
    /\ UNCHANGED <<amass, irqEnabled, word,
                   settings, pulse_length, pulse_delay, pulse_start,
                   next_step_outbits, vectorTable, st, stepPins, dirPins,
                   enablePin, tc3, tc4, fgArg, cycPC, pulPC>>
    /\ UNCHANGED obs
    /\ UNCHANGED periph

\* hal.stepper.enable((axes_signals_t){AXES_BITMASK}, false)
WakeUpEnable ==
    /\ fgPC = "wu_enable"
    /\ enablePin' = stepperEnable(AXES_BITMASK)
    /\ fgPC' = "wu_count"
    /\ UNCHANGED <<tc3, tc4, rcStopped, cptArg>>

\* variant of WakeUpCount that leaves the count as it is
WakeUpCount_NoReset ==
    /\ fgPC = "wu_count"
    /\ fgPC' = "wu_start"
    /\ UNCHANGED <<enablePin, tc3, tc4, rcStopped, cptArg>>

\* STEPPER_TIMER->COUNT32.COUNT.reg = 0
WakeUpCount ==
    /\ fgPC = "wu_count"
    /\ tc4' = [tc4 EXCEPT !.count = 0]
    /\ fgPC' = "wu_start"
    /\ UNCHANGED <<enablePin, tc3, rcStopped, cptArg>>

\* STEPPER_TIMER->COUNT32.CTRLA.reg |= TC_CTRLA_ENABLE
WakeUpStart ==
    /\ fgPC = "wu_start"
    /\ tc4' = [tc4 EXCEPT !.run = TRUE]
    /\ rcStopped' = FALSE
    /\ fgPC' = "wu_step"
    /\ UNCHANGED <<enablePin, tc3, cptArg>>

\* STEP_TIMER->COUNT16.CTRLA.reg |= TC_CTRLA_ENABLE: a disabled counter
\* starts counting (once, to CC[0]); an enabled one is left as it is
WakeUpStepTimer ==
    /\ fgPC = "wu_step"
    /\ tc3' = IF tc3.enable THEN tc3
              ELSE [tc3 EXCEPT !.enable = TRUE, !.run = TRUE]
    /\ fgPC' = "wu_cpt"
    /\ UNCHANGED <<enablePin, tc4, rcStopped, cptArg>>

\* stepperCyclesPerTick(hal.f_step_timer / 500)
WakeUpCycles ==
    /\ fgPC = "wu_cpt"
    /\ tc4' = [tc4 EXCEPT !.cc = CyclesReg(F_STEP_TIMER \div 500)]
    /\ cptArg' = F_STEP_TIMER \div 500
    /\ fgPC' = "idle"
    /\ UNCHANGED <<enablePin, tc3, rcStopped>>

stepperWakeUp ==
    /\ FgRuns
    /\ \/ WakeUpEnable
       \/ WakeUpCount
       \/ WakeUpStart
       \/ WakeUpStepTimer
       \/ WakeUpCycles
    /\ UNCHANGED <<amass, irqEnabled, word,
                   settings, pulse_length, pulse_delay, pulse_start,
                   next_step_outbits, vectorTable, st, stepPins, dirPins,
                   fgArg, cycPC, pulPC>>
    /\ UNCHANGED <<pulseTicks, watch, owed, dwrite, afterDelay, idleHold>>
    /\ UNCHANGED periph

\* the foreground calls hal.stepper.go_idle(clear_signals)
CallGoIdle ==
    /\ FgRuns
    /\ fgPC = "idle"
    /\ \E clear_signals \in {0, 1} : fgArg' = clear_signals
    /\ fgPC' = "gi_stop"
    /\ UNCHANGED <<amass, irqEnabled, word,
                   settings, pulse_length, pulse_delay, pulse_start,
                   next_step_outbits, vectorTable, st, stepPins, dirPins,
                   enablePin, tc3, tc4, cycPC, pulPC>>
    /\ UNCHANGED obs
    /\ UNCHANGED periph

\* variant of GoIdleStop that leaves the cycle timer running
GoIdleStop_NoStop ==
    /\ fgPC = "gi_stop"
    /\ UNCHANGED tc4
    /\ IF fgArg = 1
       THEN fgPC' = "gi_steps" /\ UNCHANGED <<rcStopped, idleHold>>
       ELSE fgPC' = "idle" /\ rcStopped' = TRUE /\ UNCHANGED idleHold
    /\ UNCHANGED <<stepPins, dirPins, watch>>

\* variant of GoIdleStop that zeroes the direction outputs also when
\* clear_signals is not set
GoIdleStop_ClearDirs ==
    /\ fgPC = "gi_stop"
    /\ \E c \in {tc4.count, 0} : tc4' = [tc4 EXCEPT !.run = FALSE, !.count = c]
    /\ IF fgArg = 1
       THEN fgPC' = "gi_steps" /\ UNCHANGED <<rcStopped, idleHold>>
       ELSE fgPC' = "idle" /\ rcStopped' = TRUE /\ UNCHANGED idleHold
    /\ dirPins' = set_dir_outputs(0)
    /\ UNCHANGED <<stepPins, watch>>

\* STEPPER_TIMER->COUNT32.CTRLBSET.reg = TC_CTRLBCLR_CMD_STOP: the counter
\* stops; whether it keeps its count or returns to zero is left open
GoIdleStop ==
    /\ fgPC = "gi_stop"
    /\ \E c \in {tc4.count, 0} : tc4' = [tc4 EXCEPT !.run = FALSE, !.count = c]
    /\ IF fgArg = 1
       THEN fgPC' = "gi_steps" /\ UNCHANGED <<rcStopped, idleHold>>
       ELSE fgPC' = "idle" /\ rcStopped' = TRUE /\ UNCHANGED idleHold
    /\ UNCHANGED <<stepPins, dirPins, watch>>

\* set_step_outputs((axes_signals_t){0})
GoIdleSteps ==
    /\ fgPC = "gi_steps"
    /\ stepPins' = set_step_outputs(0)
    /\ watch' = NoWatch
    /\ fgPC' = "gi_dirs"
    /\ UNCHANGED <<tc4, dirPins, rcStopped, idleHold>>

\* set_dir_outputs((axes_signals_t){0}), and return
GoIdleDirs ==
    /\ fgPC = "gi_dirs"
    /\ dirPins' = set_dir_outputs(0)
    /\ fgPC' = "idle"
    /\ rcStopped' = TRUE
    /\ idleHold' = TRUE
    /\ UNCHANGED <<tc4, stepPins, watch>>

stepperGoIdle ==
    /\ FgRuns
    /\ \/ GoIdleStop
       \/ GoIdleSteps
       \/ GoIdleDirs
    /\ UNCHANGED <<amass, irqEnabled, word,
                   settings, pulse_length, pulse_delay, pulse_start,
                   next_step_outbits, vectorTable, st, enablePin, tc3,
                   fgArg, cycPC, pulPC>>
    /\ UNCHANGED <<pulseTicks, owed, dwrite, afterDelay, cptArg>>
    /\ UNCHANGED periph

\* the foreground calls hal.stepper.cycles_per_tick(v): one register write
CyclesPerTick(values) ==
    /\ FgRuns
    /\ fgPC = "idle"
    /\ \E v \in values :
          /\ tc4' = [tc4 EXCEPT !.cc = CyclesReg(v)]
          /\ cptArg' = v
    /\ UNCHANGED <<amass, irqEnabled, word,
                   settings, pulse_length, pulse_delay, pulse_start,
                   next_step_outbits, vectorTable, st, stepPins, dirPins,
                   enablePin, tc3, fgPC, fgArg, cycPC, pulPC>>
    /\ UNCHANGED <<pulseTicks, watch, owed, dwrite, afterDelay, idleHold,
                   rcStopped>>
    /\ UNCHANGED periph

stepperCyclesPerTick == CyclesPerTick(CycleValues)

\* variant of CallEnable that also selects the immediate pulse_start
CallEnable_ResetMode ==
    /\ FgRuns
    /\ fgPC = "idle"
    /\ \E axes \in EnableMasks : enablePin' = stepperEnable(axes)
    /\ pulse_start' = ImmediateFn
    /\ UNCHANGED <<amass, irqEnabled, word,
                   settings, pulse_length, pulse_delay,
                   next_step_outbits, vectorTable, st, stepPins, dirPins,
                   tc3, tc4, fgPC, fgArg, cycPC, pulPC>>
    /\ UNCHANGED obs
    /\ UNCHANGED periph

\* the foreground calls hal.stepper.enable(axes, hold): one pin write
CallEnable ==
    /\ FgRuns
    /\ fgPC = "idle"
    /\ \E axes \in EnableMasks : enablePin' = stepperEnable(axes)
    /\ UNCHANGED <<amass, irqEnabled, word,
                   settings, pulse_length, pulse_delay, pulse_start,
                   next_step_outbits, vectorTable, st, stepPins, dirPins,
                   tc3, tc4, fgPC, fgArg, cycPC, pulPC>>
    /\ UNCHANGED obs
    /\ UNCHANGED periph

(***************************************************************************)
(* Interrupt vector registry, called on its own                            *)
(***************************************************************************)
\* the handlers the driver has for an interrupt, and the fallback
HandlersOf(IRQnum) ==
    IF IRQnum = STEP_TIMER_IRQn
    THEN {EndPulseHandler, DelayHandler, Dummy_Handler}
    ELSE IF IRQnum = STEPPER_TIMER_IRQn
    THEN {CycleHandler, Dummy_Handler}
    ELSE {SysTickHandler, Dummy_Handler}

RegistryPCs == {"vr_reg", "vr_unreg"}

\* a caller invokes IRQRegister(IRQnum, IRQhandler) or IRQUnRegister(IRQnum)
RegistryCall ==
    /\ FgRuns
    /\ fgPC = "idle"
    /\ \E n \in IrqIds : \E h \in HandlersOf(n) :
          fgArg' = [id |-> n, handler |-> h]
    /\ fgPC' \in RegistryPCs
    /\ UNCHANGED <<amass, irqEnabled, word,
                   settings, pulse_length, pulse_delay, pulse_start,
                   next_step_outbits, vectorTable, st, stepPins, dirPins,
                   enablePin, tc3, tc4, cycPC, pulPC>>
    /\ UNCHANGED obs
    /\ UNCHANGED periph

\* the body of IRQRegister / IRQUnRegister: the store, and the return
RegistryWrite ==
    /\ FgRuns
    /\ fgPC \in RegistryPCs
    /\ vectorTable' = IF fgPC = "vr_reg"
                      THEN IRQRegister(fgArg.id, fgArg.handler)
                      ELSE IRQUnRegister(fgArg.id)
    /\ fgPC' = "idle"
    /\ UNCHANGED <<amass, irqEnabled, word,
                   settings, pulse_length, pulse_delay, pulse_start,
                   next_step_outbits, st, stepPins, dirPins,
                   enablePin, tc3, tc4, fgArg, cycPC, pulPC>>
    /\ UNCHANGED obs
    /\ UNCHANGED periph

\* Dummy_Handler, the no-op fallback: it returns at once and leaves the
\* interrupt flag as it is
DummyReturn ==
    /\ \/ PulseRuns /\ pulPC = "dummy" /\ pulPC' = "none" /\ UNCHANGED cycPC
       \/ CycleRuns /\ cycPC = "dummy" /\ cycPC' = "none" /\ UNCHANGED pulPC
    /\ UNCHANGED <<amass, irqEnabled, word,
                   settings, pulse_length, pulse_delay, pulse_start,
                   next_step_outbits, vectorTable, st, stepPins, dirPins,
                   enablePin, tc3, tc4, fgPC, fgArg>>
    /\ UNCHANGED obs
    /\ UNCHANGED periph

(***************************************************************************)
(* Atomic helpers and the global interrupt enable                          *)
(***************************************************************************)
\* a | b and a & ~b on the three low bits of a word
BitOr(a, b) ==
    (IF Bit(a, 0) + Bit(b, 0) > 0 THEN 1 ELSE 0)
  + (IF Bit(a, 1) + Bit(b, 1) > 0 THEN 2 ELSE 0)
  + (IF Bit(a, 2) + Bit(b, 2) > 0 THEN 4 ELSE 0)

BitAndNot(a, b) ==
    (Bit(a, 0) * (1 - Bit(b, 0)))
  + (Bit(a, 1) * (1 - Bit(b, 1))) * 2
  + (Bit(a, 2) * (1 - Bit(b, 2))) * 4

AtomicFns == {"bitsSetAtomic", "bitsClearAtomic", "valueSetAtomic"}

\* the operands the helpers are called with
AtomicOperands == {1, 6}

\* hal.irq_disable = __disable_irq, called by the foreground
irq_disable ==
    /\ FgRuns
    /\ fgPC = "idle"
    /\ irqEnabled
    /\ irqEnabled' = FALSE
    /\ UNCHANGED <<amass, word,
                   settings, pulse_length, pulse_delay, pulse_start,
                   next_step_outbits, vectorTable, st, stepPins, dirPins,
                   enablePin, tc3, tc4, fgPC, fgArg, cycPC, pulPC>>
    /\ UNCHANGED obs
    /\ UNCHANGED periph

\* hal.irq_enable = __enable_irq, called by the foreground
irq_enable ==
    /\ FgRuns
    /\ fgPC = "idle"
    /\ ~irqEnabled
    /\ irqEnabled' = TRUE
    /\ UNCHANGED <<amass, word,
                   settings, pulse_length, pulse_delay, pulse_start,
                   next_step_outbits, vectorTable, st, stepPins, dirPins,
                   enablePin, tc3, tc4, fgPC, fgArg, cycPC, pulPC>>
    /\ UNCHANGED obs
    /\ UNCHANGED periph

\* the foreground calls one of the helpers on the shared word; entry
\* records the interrupt-enable state at the call
AtomicCall ==
    /\ FgRuns
    /\ fgPC = "idle"
    /\ \E f \in AtomicFns : \E b \in AtomicOperands :
          fgArg' = [fn |-> f, operand |-> b, entry |-> irqEnabled,
                    prev |-> 0, tmp |-> 0]
    /\ fgPC' = "at_disable"
    /\ UNCHANGED <<amass, irqEnabled, word,
                   settings, pulse_length, pulse_delay, pulse_start,
                   next_step_outbits, vectorTable, st, stepPins, dirPins,
                   enablePin, tc3, tc4, cycPC, pulPC>>
    /\ UNCHANGED obs
    /\ UNCHANGED periph

\* variant of AtomicDisable that leaves the interrupts as they are
AtomicDisable_Skip ==
    /\ FgRuns
    /\ fgPC = "at_disable"
    /\ fgPC' = "at_update"
    /\ UNCHANGED <<amass, word, irqEnabled,
                   settings, pulse_length, pulse_delay, pulse_start,
                   next_step_outbits, vectorTable, st, stepPins, dirPins,
                   enablePin, tc3, tc4, fgArg, cycPC, pulPC>>
    /\ UNCHANGED obs
    /\ UNCHANGED periph

\* __disable_irq();
AtomicDisable ==
    /\ FgRuns
    /\ fgPC = "at_disable"
    /\ irqEnabled' = FALSE
    /\ fgPC' = "at_update"
    /\ UNCHANGED <<amass, word,
                   settings, pulse_length, pulse_delay, pulse_start,
                   next_step_outbits, vectorTable, st, stepPins, dirPins,
                   enablePin, tc3, tc4, fgArg, cycPC, pulPC>>
    /\ UNCHANGED obs
    /\ UNCHANGED periph

\* the first access of the volatile word: uint_fast16_t prev = *ptr in
\* bitsClearAtomic and valueSetAtomic, the load of *ptr |= bits in
\* bitsSetAtomic
AtomicFirst ==
    /\ fgPC = "at_update"
    /\ IF fgArg.fn = "bitsSetAtomic"
       THEN fgArg' = [fgArg EXCEPT !.tmp = word] /\ fgPC' = "at_store"
       ELSE /\ fgArg' = [fgArg EXCEPT !.prev = word]
            /\ fgPC' = IF fgArg.fn = "bitsClearAtomic" THEN "at_load"
                       ELSE "at_store"
    /\ UNCHANGED word

\* the load of *ptr &= ~bits
AtomicLoad ==
    /\ fgPC = "at_load"
    /\ fgArg' = [fgArg EXCEPT !.tmp = word]
    /\ fgPC' = "at_store"
    /\ UNCHANGED word

\* the store of *ptr |= bits;  /  *ptr &= ~bits;  /  *ptr = value;
AtomicStore ==
    /\ fgPC = "at_store"
    /\ word' = CASE fgArg.fn = "bitsSetAtomic" ->
                        BitOr(fgArg.tmp, fgArg.operand)
                 [] fgArg.fn = "bitsClearAtomic" ->
                        BitAndNot(fgArg.tmp, fgArg.operand)
                 [] OTHER -> fgArg.operand
    /\ fgPC' = "at_enable"
    /\ UNCHANGED fgArg

\* *ptr |= bits;  /  prev = *ptr; *ptr &= ~bits;  /  prev = *ptr; *ptr = value;
\* one step for each access of the volatile word
AtomicUpdate ==
    /\ FgRuns
    /\ \/ AtomicFirst
       \/ AtomicLoad
       \/ AtomicStore
    /\ UNCHANGED <<amass, irqEnabled,
                   settings, pulse_length, pulse_delay, pulse_start,
                   next_step_outbits, vectorTable, st, stepPins, dirPins,
                   enablePin, tc3, tc4, cycPC, pulPC>>
    /\ UNCHANGED obs
    /\ UNCHANGED periph

\* the planner callback sets a flag in the shared word from the cycle-timer
\* interrupt, through hal.set_bits_atomic; nothing that could preempt it
\* there touches the word, so the call is one step
AtomicFlag == 4

CallbackSetsBits ==
    /\ CycleRuns
    /\ cycPC = "cb"
    /\ Bit(word, 2) = 0
    /\ word' = BitOr(word, AtomicFlag)
    /\ UNCHANGED <<amass, irqEnabled,
                   settings, pulse_length, pulse_delay, pulse_start,
                   next_step_outbits, vectorTable, st, stepPins, dirPins,
                   enablePin, tc3, tc4, fgPC, fgArg, cycPC, pulPC>>
    /\ UNCHANGED obs
    /\ UNCHANGED periph

\* __enable_irq(); and the return
AtomicEnable ==
    /\ FgRuns
    /\ fgPC = "at_enable"
    /\ irqEnabled' = TRUE
    /\ fgPC' = "idle"
    /\ UNCHANGED <<amass, word,
                   settings, pulse_length, pulse_delay, pulse_start,
                   next_step_outbits, vectorTable, st, stepPins, dirPins,
                   enablePin, tc3, tc4, fgArg, cycPC, pulPC>>
    /\ UNCHANGED obs
    /\ UNCHANGED periph

(***************************************************************************)
(* Output latch, called on its own with every bitmask                      *)
(***************************************************************************)
LatchMasks == 0 .. 7

LatchPCs == {"ls_steps", "ls_dirs", "ls_enable"}

\* a caller invokes set_step_outputs, set_dir_outputs or hal.stepper.enable
\* with the bitmask b
LatchCall ==
    /\ FgRuns
    /\ fgPC = "idle"
    /\ \E b \in LatchMasks : fgArg' = b
    /\ fgPC' \in LatchPCs
    /\ UNCHANGED <<amass, irqEnabled, word,
                   settings, pulse_length, pulse_delay, pulse_start,
                   next_step_outbits, vectorTable, st, stepPins, dirPins,
                   enablePin, tc3, tc4, cycPC, pulPC>>
    /\ UNCHANGED obs
    /\ UNCHANGED periph

\* the body of set_step_outputs / set_dir_outputs / stepperEnable: the pin
\* writes, and the return
LatchWrite ==
    /\ FgRuns
    /\ fgPC \in LatchPCs
    /\ stepPins' = IF fgPC = "ls_steps" THEN set_step_outputs(fgArg)
                   ELSE stepPins
    /\ dirPins' = IF fgPC = "ls_dirs" THEN set_dir_outputs(fgArg)
                  ELSE dirPins
    /\ enablePin' = IF fgPC = "ls_enable" THEN stepperEnable(fgArg)
                    ELSE enablePin
    /\ fgPC' = "idle"
    /\ UNCHANGED <<amass, irqEnabled, word,
                   settings, pulse_length, pulse_delay, pulse_start,
                   next_step_outbits, vectorTable, st,
                   tc3, tc4, fgArg, cycPC, pulPC>>
    /\ UNCHANGED obs
    /\ UNCHANGED periph

(***************************************************************************)
(* Configuration: settings_changed with IOInitDone set (the stepper part)  *)
(***************************************************************************)
\* the settings collaborator stores new settings and calls
\* hal.settings_changed(&settings, changed)
ApplySettings(cfgs) ==
    /\ FgRuns
    /\ fgPC = "idle"
    /\ \E cfg \in cfgs : settings' = cfg
    /\ fgPC' = "sc_len"
    /\ watch' = NoWatch
    /\ idleHold' = FALSE
    /\ afterDelay' = NoAfter
    /\ UNCHANGED <<amass, irqEnabled, word, pulse_length, pulse_delay,
                   pulse_start, next_step_outbits, vectorTable, st, stepPins,
                   dirPins, enablePin, tc3, tc4, fgArg, cycPC, pulPC>>
    /\ UNCHANGED <<pulseTicks, owed, dwrite, rcStopped, cptArg>>
    /\ UNCHANGED periph

\* pulse_length = t < 2 ? 2 : t
SettingsLength ==
    /\ fgPC = "sc_len"
    /\ pulse_length' \in TimerTicks(settings.pulse_us10, STEP_PULSE_LATENCY10)
    /\ fgPC' = "sc_delay"
    /\ UNCHANGED <<pulse_delay, pulse_start, next_step_outbits, vectorTable, tc3,
                   owed>>

\* variant of SettingsDelay that leaves pulse_start as it is
SettingsDelay_KeepMode ==
    /\ fgPC = "sc_delay"
    /\ IF settings.delay_us10 > 0
       THEN pulse_delay' \in TimerTicks(settings.delay_us10,
                                        STEP_DELAY_OFFSET10)
       ELSE UNCHANGED pulse_delay
    /\ UNCHANGED pulse_start
    /\ fgPC' = "sc_next"
    /\ UNCHANGED <<pulse_length, next_step_outbits, vectorTable, tc3, owed>>

\* if(pulse_delay_microseconds > 0.0f) { pulse_delay = t < 2 ? 2 : t;
\*   hal.stepper.pulse_start = stepperPulseStartDelayed; }
\* else hal.stepper.pulse_start = stepperPulseStart
SettingsDelay ==
    /\ fgPC = "sc_delay"
    /\ IF settings.delay_us10 > 0
       THEN /\ pulse_delay' \in TimerTicks(settings.delay_us10,
                                           STEP_DELAY_OFFSET10)
            /\ pulse_start' = DelayedFn
       ELSE /\ pulse_start' = ImmediateFn
            /\ UNCHANGED pulse_delay
    /\ fgPC' = "sc_next"
    /\ UNCHANGED <<pulse_length, next_step_outbits, vectorTable, tc3, owed>>

\* next_step_outbits.value = 0
SettingsNext ==
    /\ fgPC = "sc_next"
    /\ next_step_outbits' = 0
    /\ owed' = 0
    /\ fgPC' = "sc_reg"
    /\ UNCHANGED <<pulse_length, pulse_delay, pulse_start, vectorTable, tc3>>

\* IRQRegister(STEP_TIMER_IRQn, STEPPULSE_IRQHandler)
SettingsRegister ==
    /\ fgPC = "sc_reg"
    /\ vectorTable' = IRQRegister(STEP_TIMER_IRQn, EndPulseHandler)
    /\ fgPC' = "sc_cc"
    /\ UNCHANGED <<pulse_length, pulse_delay, pulse_start, next_step_outbits,
                   tc3, owed>>

\* STEP_TIMER->COUNT16.CC[0].reg = pulse_length
SettingsCompare ==
    /\ fgPC = "sc_cc"
    /\ tc3' = [tc3 EXCEPT !.cc = pulse_length]
    /\ fgPC' = "idle"
    /\ UNCHANGED <<pulse_length, pulse_delay, pulse_start, next_step_outbits,
                   vectorTable, owed>>

CallSettingsChanged == ApplySettings(Configs)

settings_changed ==
    /\ FgRuns
    /\ \/ SettingsLength
       \/ SettingsDelay
       \/ SettingsNext
       \/ SettingsRegister
       \/ SettingsCompare
    /\ UNCHANGED <<amass, irqEnabled, word,
                   settings, st, stepPins, dirPins, enablePin, tc4,
                   fgArg, cycPC, pulPC>>
    /\ UNCHANGED <<pulseTicks, watch, dwrite, afterDelay, idleHold,
                   rcStopped, cptArg>>
    /\ UNCHANGED periph

(***************************************************************************)
(* Cycle-timer interrupt                                                   *)
(***************************************************************************)
\* NVIC takes the cycle-timer interrupt and dispatches through vectorTable
CycleIrqEntry ==
    /\ CycleTaken
    /\ cycPC' = HandlerEntry(Vector(STEPPER_TIMER_IRQn))
    /\ UNCHANGED <<amass, irqEnabled, word,
                   settings, pulse_length, pulse_delay, pulse_start,
                   next_step_outbits, vectorTable, st, stepPins, dirPins,
                   enablePin, tc3, tc4, fgPC, fgArg, pulPC>>
    /\ UNCHANGED obs
    /\ UNCHANGED periph

\* variant of STEPPER_IRQHandler that invokes the callback without
\* acknowledging the interrupt flag
STEPPER_IRQHandler_NoAck ==
    /\ CycleRuns
    /\ cycPC = "irq_ack"
    /\ cycPC' = "cb"
    /\ UNCHANGED <<amass, irqEnabled, word,
                   settings, pulse_length, pulse_delay, pulse_start,
                   next_step_outbits, vectorTable, st, stepPins, dirPins,
                   enablePin, tc3, tc4, fgPC, fgArg, pulPC>>
    /\ UNCHANGED obs
    /\ UNCHANGED periph

\* STEPPER_TIMER->COUNT32.INTFLAG.bit.MC0 = 1, then hal.stepper.interrupt_callback()
STEPPER_IRQHandler ==
    /\ CycleRuns
    /\ cycPC = "irq_ack"
    /\ tc4' = [tc4 EXCEPT !.flag = 0]
    /\ cycPC' = "cb"
    /\ UNCHANGED <<amass, irqEnabled, word,
                   settings, pulse_length, pulse_delay, pulse_start,
                   next_step_outbits, vectorTable, st, stepPins, dirPins,
                   enablePin, tc3, fgPC, fgArg, pulPC>>
    /\ UNCHANGED obs
    /\ UNCHANGED periph

\* A command that asks for a delayed step: direction change and step
Delayable(cmd) == cmd.dir_changed # 0 /\ cmd.step_out # 0

\* The planner callback loads the next command into st and calls
\* hal.stepper.pulse_start(&st)
PlannerCallback(cmds) ==
    /\ CycleRuns
    /\ cycPC = "cb"
    /\ \E cmd \in cmds :
          /\ st' = cmd
          /\ owed' = IF pulse_start = DelayedFn /\ Delayable(cmd)
                     THEN cmd.step_out ELSE owed
          /\ watch' = IF cmd.step_out = 0 /\ cmd.dir_changed = 0 THEN watch
                      ELSE IF /\ pulse_start = DelayedFn
                              /\ Delayable(cmd)
                              /\ PulseIdle
                              /\ fgPC \notin SettingsPCs
                           THEN [ph |-> "delay", pat |-> cmd.step_out, at |-> 0]
                           ELSE NoWatch
          /\ afterDelay' = IF cmd.step_out = 0 /\ cmd.dir_changed = 0
                           THEN afterDelay ELSE NoAfter
    /\ cycPC' = IF pulse_start = DelayedFn THEN "psd_dir" ELSE "ps_dir"
    /\ idleHold' = FALSE
    /\ UNCHANGED <<amass, irqEnabled, word,
                   settings, pulse_length, pulse_delay, pulse_start,
                   next_step_outbits, vectorTable, stepPins, dirPins,
                   enablePin, tc3, tc4, fgPC, fgArg, pulPC>>
    /\ UNCHANGED <<pulseTicks, dwrite, rcStopped, cptArg>>
    /\ UNCHANGED periph

\* After pulse_start returns the callback calls
\* hal.stepper.cycles_per_tick(v); then the interrupt returns
PlannerCallbackCycles ==
    /\ CycleRuns
    /\ cycPC = "cb_after"
    /\ \E v \in CycleValues :
          /\ tc4' = [tc4 EXCEPT !.cc = CyclesReg(v)]
          /\ cptArg' = v
    /\ cycPC' = "none"
    /\ UNCHANGED <<amass, irqEnabled, word,
                   settings, pulse_length, pulse_delay, pulse_start,
                   next_step_outbits, vectorTable, st, stepPins, dirPins,
                   enablePin, tc3, fgPC, fgArg, pulPC>>
    /\ UNCHANGED <<pulseTicks, watch, owed, dwrite, afterDelay, idleHold,
                   rcStopped>>
    /\ UNCHANGED periph

\* After pulse_start returns the callback and the interrupt return
PlannerCallbackReturn ==
    /\ CycleRuns
    /\ cycPC = "cb_after"
    /\ UNCHANGED <<tc4, cptArg>>
    /\ cycPC' = "none"
    /\ UNCHANGED <<amass, irqEnabled, word,
                   settings, pulse_length, pulse_delay, pulse_start,
                   next_step_outbits, vectorTable, st, stepPins, dirPins,
                   enablePin, tc3, fgPC, fgArg, pulPC>>
    /\ UNCHANGED <<pulseTicks, watch, owed, dwrite, afterDelay, idleHold,
                   rcStopped>>
    /\ UNCHANGED periph

(***************************************************************************)
(* Pulse state machine: pulse_start, called from the planner callback      *)
(***************************************************************************)
\* variant of PulseStartDir that leaves dir_changed as it is
PulseStartDir_KeepFlag ==
    /\ cycPC = "ps_dir"
    /\ IF st.dir_changed # 0
       THEN dirPins' = set_dir_outputs(st.dir_out)
       ELSE UNCHANGED dirPins
    /\ cycPC' = "ps_step"
    /\ UNCHANGED <<st, stepPins, tc3, pulseTicks, watch>>

\* variant of PulseStartDir that writes only the direction outputs of the
\* axes named in dir_changed
PulseStartDir_ChangedOnly ==
    /\ cycPC = "ps_dir"
    /\ IF st.dir_changed # 0
       THEN /\ st' = [st EXCEPT !.dir_changed = 0]
            /\ dirPins' = BitOr(BitAndNot(dirPins, st.dir_changed),
                                BitAndNot(set_dir_outputs(st.dir_out),
                                          Xor(st.dir_changed, 7)))
       ELSE UNCHANGED <<st, dirPins>>
    /\ cycPC' = "ps_step"
    /\ UNCHANGED <<stepPins, tc3, pulseTicks, watch>>

\* if(stepper->dir_changed.bits) { stepper->dir_changed.bits = 0;
\*   set_dir_outputs(stepper->dir_out); }
PulseStartDir ==
    /\ cycPC = "ps_dir"
    /\ IF st.dir_changed # 0
       THEN /\ st' = [st EXCEPT !.dir_changed = 0]
            /\ dirPins' = set_dir_outputs(st.dir_out)
       ELSE UNCHANGED <<st, dirPins>>
    /\ cycPC' = "ps_step"
    /\ UNCHANGED <<stepPins, tc3, pulseTicks, watch>>

\* if(stepper->step_out.bits) set_step_outputs(stepper->step_out)
PulseStartSteps ==
    /\ cycPC = "ps_step"
    /\ IF st.step_out # 0
       THEN /\ stepPins' = set_step_outputs(st.step_out)
            /\ cycPC' = "ps_trig"
       ELSE /\ cycPC' = "cb_after"
            /\ UNCHANGED stepPins
    /\ UNCHANGED <<st, dirPins, tc3, pulseTicks, watch>>

\* STEP_TIMER->COUNT16.CTRLBSET.reg = TC_CTRLBCLR_CMD_RETRIGGER|TCC_CTRLBSET_ONESHOT
PulseStartTrigger ==
    /\ cycPC = "ps_trig"
    /\ tc3' = Retrigger(tc3)
    /\ pulseTicks' = RetriggerTicks
    /\ watch' = IF fgPC \notin SettingsPCs
                THEN [ph |-> "ipulse", pat |-> st.step_out, at |-> 0]
                ELSE NoWatch
    /\ cycPC' = "cb_after"
    /\ UNCHANGED <<st, stepPins, dirPins>>

stepperPulseStart ==
    /\ CycleRuns
    /\ \/ PulseStartDir
       \/ PulseStartSteps
       \/ PulseStartTrigger
    /\ UNCHANGED <<amass, irqEnabled, word,
                   settings, pulse_length, pulse_delay, pulse_start,
                   next_step_outbits, vectorTable, enablePin, tc4, fgPC, fgArg,
                   pulPC>>
    /\ UNCHANGED <<owed, dwrite, afterDelay, idleHold, rcStopped, cptArg>>
    /\ UNCHANGED periph

\* variant of DelayedDir that starts the delay without testing step_out
DelayedDir_AlwaysDelay ==
    /\ cycPC = "psd_dir"
    /\ IF st.dir_changed # 0
       THEN /\ st' = [st EXCEPT !.dir_changed = 0]
            /\ dirPins' = set_dir_outputs(st.dir_out)
            /\ cycPC' = "psd_reg"
       ELSE /\ cycPC' = "psd_step"
            /\ UNCHANGED <<st, dirPins>>
    /\ UNCHANGED <<vectorTable, next_step_outbits, stepPins, tc3, pulseTicks>>

\* if(stepper->dir_changed.bits) { stepper->dir_changed.bits = 0;
\*   set_dir_outputs(stepper->dir_out); if(stepper->step_out.bits) {...} return; }
DelayedDir ==
    /\ cycPC = "psd_dir"
    /\ IF st.dir_changed # 0
       THEN /\ st' = [st EXCEPT !.dir_changed = 0]
            /\ dirPins' = set_dir_outputs(st.dir_out)
            /\ cycPC' = IF st.step_out # 0 THEN "psd_reg" ELSE "cb_after"
       ELSE /\ cycPC' = "psd_step"
            /\ UNCHANGED <<st, dirPins>>
    /\ UNCHANGED <<vectorTable, next_step_outbits, stepPins, tc3, pulseTicks>>

\* IRQRegister(STEP_TIMER_IRQn, STEPPULSE_Delayed_IRQHandler)
DelayedRegister ==
    /\ cycPC = "psd_reg"
    /\ vectorTable' = IRQRegister(STEP_TIMER_IRQn, DelayHandler)
    /\ cycPC' = "psd_store"
    /\ UNCHANGED <<st, dirPins, next_step_outbits, stepPins, tc3, pulseTicks>>

\* next_step_outbits = stepper->step_out
DelayedStore ==
    /\ cycPC = "psd_store"
    /\ next_step_outbits' = st.step_out
    /\ cycPC' = "psd_cc"
    /\ UNCHANGED <<st, dirPins, vectorTable, stepPins, tc3, pulseTicks>>

\* variant of DelayedCompare that programs the pulse length
DelayedCompare_Length ==
    /\ cycPC = "psd_cc"
    /\ tc3' = [tc3 EXCEPT !.cc = pulse_length]
    /\ cycPC' = "psd_trig"
    /\ UNCHANGED <<st, dirPins, vectorTable, next_step_outbits, stepPins,
                   pulseTicks>>

\* STEP_TIMER->COUNT16.CC[0].reg = pulse_delay
DelayedCompare ==
    /\ cycPC = "psd_cc"
    /\ tc3' = [tc3 EXCEPT !.cc = pulse_delay]
    /\ cycPC' = "psd_trig"
    /\ UNCHANGED <<st, dirPins, vectorTable, next_step_outbits, stepPins,
                   pulseTicks>>

\* STEP_TIMER->COUNT16.CTRLBSET.reg = TC_CTRLBCLR_CMD_RETRIGGER|TCC_CTRLBSET_ONESHOT
DelayedTrigger ==
    /\ cycPC = "psd_trig"
    /\ tc3' = Retrigger(tc3)
    /\ pulseTicks' = RetriggerTicks
    /\ cycPC' = "cb_after"
    /\ UNCHANGED <<st, dirPins, vectorTable, next_step_outbits, stepPins>>

\* variant of DelayedSteps that writes and triggers without the test
DelayedSteps_Always ==
    /\ cycPC = "psd_step"
    /\ stepPins' = set_step_outputs(st.step_out)
    /\ cycPC' = "psd_trig2"
    /\ UNCHANGED <<st, dirPins, vectorTable, next_step_outbits, tc3, pulseTicks>>

\* no direction change: if(stepper->step_out.bits) set_step_outputs(stepper->step_out)
DelayedSteps ==
    /\ cycPC = "psd_step"
    /\ IF st.step_out # 0
       THEN /\ stepPins' = set_step_outputs(st.step_out)
            /\ cycPC' = "psd_trig2"
       ELSE /\ cycPC' = "cb_after"
            /\ UNCHANGED stepPins
    /\ UNCHANGED <<st, dirPins, vectorTable, next_step_outbits, tc3, pulseTicks>>

\* no direction change: CTRLBSET = TC_CTRLBCLR_CMD_RETRIGGER|TCC_CTRLBSET_ONESHOT
DelayedStepsTrigger ==
    /\ cycPC = "psd_trig2"
    /\ tc3' = Retrigger(tc3)
    /\ pulseTicks' = RetriggerTicks
    /\ cycPC' = "cb_after"
    /\ UNCHANGED <<st, dirPins, vectorTable, next_step_outbits, stepPins>>

stepperPulseStartDelayed ==
    /\ CycleRuns
    /\ \/ DelayedDir
       \/ DelayedRegister
       \/ DelayedStore
       \/ DelayedCompare
       \/ DelayedTrigger
       \/ DelayedSteps
       \/ DelayedStepsTrigger
    /\ UNCHANGED <<amass, irqEnabled, word,
                   settings, pulse_length, pulse_delay, pulse_start,
                   enablePin, tc4, fgPC, fgArg, pulPC>>
    /\ UNCHANGED <<watch, owed, dwrite, afterDelay, idleHold, rcStopped,
                   cptArg>>
    /\ UNCHANGED periph

(***************************************************************************)
(* Pulse-timer interrupt                                                   *)
(***************************************************************************)
\* NVIC takes the pulse-timer interrupt and dispatches through vectorTable
PulseIrqEntry ==
    /\ PulseTaken
    /\ pulPC' = HandlerEntry(Vector(STEP_TIMER_IRQn))
    /\ UNCHANGED <<amass, irqEnabled, word,
                   settings, pulse_length, pulse_delay, pulse_start,
                   next_step_outbits, vectorTable, st, stepPins, dirPins,
                   enablePin, tc3, tc4, fgPC, fgArg, cycPC>>
    /\ UNCHANGED obs
    /\ UNCHANGED periph

\* STEP_TIMER->COUNT16.INTFLAG.bit.MC0 = 1
EndPulseAck ==
    /\ pulPC = "ep_ack"
    /\ tc3' = [tc3 EXCEPT !.flag = 0]
    /\ pulPC' = "ep_clear"
    /\ UNCHANGED <<stepPins, watch, afterDelay>>
    /\ UNCHANGED periph

\* variant of EndPulseClear that returns only once no cycle-timer handler
\* is active
EndPulseClear_WaitCycle ==
    /\ pulPC = "ep_clear"
    /\ cycPC = "none"
    /\ stepPins' = set_step_outputs(0)
    /\ watch' = IF watch.ph = "dpulse"
                THEN [watch EXCEPT !.ph = "ddone", !.at = pulseTicks]
                ELSE IF watch.ph = "ipulse"
                THEN [watch EXCEPT !.ph = "idone", !.at = pulseTicks]
                ELSE watch
    /\ afterDelay' = NoAfter
    /\ pulPC' = "none"
    /\ UNCHANGED tc3
    /\ UNCHANGED periph

\* set_step_outputs((axes_signals_t){0})
EndPulseClear ==
    /\ pulPC = "ep_clear"
    /\ stepPins' = set_step_outputs(0)
    /\ watch' = IF watch.ph = "dpulse"
                THEN [watch EXCEPT !.ph = "ddone", !.at = pulseTicks]
                ELSE IF watch.ph = "ipulse"
                THEN [watch EXCEPT !.ph = "idone", !.at = pulseTicks]
                ELSE watch
    /\ afterDelay' = NoAfter
    /\ pulPC' = "none"
    /\ UNCHANGED tc3
    /\ UNCHANGED periph

STEPPULSE_IRQHandler ==
    /\ PulseRuns
    /\ \/ EndPulseAck
       \/ EndPulseClear
    /\ UNCHANGED <<amass, irqEnabled, word,
                   settings, pulse_length, pulse_delay, pulse_start,
                   next_step_outbits, vectorTable, st, dirPins, enablePin, tc4,
                   fgPC, fgArg, cycPC>>
    /\ UNCHANGED <<pulseTicks, owed, dwrite, idleHold, rcStopped, cptArg>>

\* STEP_TIMER->COUNT16.INTFLAG.bit.MC0 = 1
DelayAck ==
    /\ pulPC = "dl_ack"
    /\ tc3' = [tc3 EXCEPT !.flag = 0]
    /\ pulPC' = "dl_cc"
    /\ UNCHANGED <<stepPins, vectorTable, pulseTicks, watch, owed, dwrite,
                   afterDelay>>
    /\ UNCHANGED periph

\* STEP_TIMER->COUNT16.CC[0].reg = pulse_length
DelayCompare ==
    /\ pulPC = "dl_cc"
    /\ tc3' = [tc3 EXCEPT !.cc = pulse_length]
    /\ pulPC' = "dl_steps"
    /\ UNCHANGED <<stepPins, vectorTable, pulseTicks, watch, owed, dwrite,
                   afterDelay>>
    /\ UNCHANGED periph

\* set_step_outputs(next_step_outbits)
DelaySteps ==
    /\ pulPC = "dl_steps"
    /\ stepPins' = set_step_outputs(next_step_outbits)
    /\ dwrite' = [pat |-> next_step_outbits, want |-> owed]
    /\ owed' = 0
    /\ watch' = IF watch.ph = "delay"
                THEN [watch EXCEPT !.ph = "dpulse", !.at = pulseTicks]
                ELSE watch
    /\ pulPC' = "dl_count"
    /\ UNCHANGED <<tc3, vectorTable, pulseTicks, afterDelay>>
    /\ UNCHANGED periph

\* STEP_TIMER->COUNT16.COUNT.reg = 0
DelayCount ==
    /\ pulPC = "dl_count"
    /\ tc3' = [tc3 EXCEPT !.count = 0]
    /\ pulPC' = "dl_reg"
    /\ UNCHANGED <<stepPins, vectorTable, pulseTicks, watch, owed, dwrite,
                   afterDelay>>
    /\ UNCHANGED periph

\* IRQRegister(STEP_TIMER_IRQn, STEPPULSE_IRQHandler)
DelayRegister ==
    /\ pulPC = "dl_reg"
    /\ vectorTable' = IRQRegister(STEP_TIMER_IRQn, EndPulseHandler)
    /\ pulPC' = "dl_trig"
    /\ UNCHANGED <<stepPins, tc3, pulseTicks, watch, owed, dwrite, afterDelay>>
    /\ UNCHANGED periph

\* STEP_TIMER->COUNT16.CTRLBSET.reg = TC_CTRLBCLR_CMD_RETRIGGER|TCC_CTRLBSET_ONESHOT
DelayTrigger ==
    /\ pulPC = "dl_trig"
    /\ tc3' = Retrigger(tc3)
    /\ pulseTicks' = RetriggerTicks
    /\ afterDelay' = [ph |-> "armed", ticks |-> 0]
    /\ pulPC' = "none"
    /\ UNCHANGED <<stepPins, vectorTable, watch, owed, dwrite>>
    /\ UNCHANGED periph

STEPPULSE_Delayed_IRQHandler ==
    /\ PulseRuns
    /\ \/ DelayAck
       \/ DelayCompare
       \/ DelaySteps
       \/ DelayCount
       \/ DelayRegister
       \/ DelayTrigger
    /\ UNCHANGED <<amass, irqEnabled, word,
                   settings, pulse_length, pulse_delay, pulse_start,
                   next_step_outbits, st, dirPins, enablePin, tc4,
                   fgPC, fgArg, cycPC>>
    /\ UNCHANGED <<idleHold, rcStopped, cptArg>>

(***************************************************************************)
(* Specifications                                                          *)
(*                                                                         *)
(* Spec: the pulse state machine under every command, in each              *)
(* configuration; the cycle timer keeps the period wake_up programs, and   *)
(* since the model abstracts that period to "any time" every placement of  *)
(* the cycle-timer interrupt relative to the pulse timer occurs.           *)
(*                                                                         *)
(* SpecConfig: the same with configurations applied while the engine runs, *)
(* under the commands that emit a step.                                    *)
(*                                                                         *)
(* SpecRate: the rate controller under every cycle value, both builds and  *)
(* every enable mask, with one configuration and step-only commands.       *)
(***************************************************************************)
Engine ==
    \/ PulseTimerTick
    \/ CycleTimerMatch
    \/ CallWakeUp
    \/ stepperWakeUp
    \/ CallGoIdle
    \/ stepperGoIdle
    \/ CycleIrqEntry
    \/ STEPPER_IRQHandler
    \/ PlannerCallbackReturn
    \/ stepperPulseStart
    \/ PulseIrqEntry
    \/ STEPPULSE_IRQHandler

Init == InitWith({FALSE}, Configs)

Next ==
    \/ Engine
    \/ PlannerCallback(Commands)
    \/ stepperPulseStartDelayed
    \/ STEPPULSE_Delayed_IRQHandler

Spec == Init /\ [][Next]_vars

ConfigCommands == {c \in Commands : c.step_out # 0}

NextConfig ==
    \/ Engine
    \/ CallSettingsChanged
    \/ settings_changed
    \/ PlannerCallback(ConfigCommands)
    \/ stepperPulseStartDelayed
    \/ STEPPULSE_Delayed_IRQHandler

SpecConfig == Init /\ [][NextConfig]_vars

RateCommands == {c \in Commands : c.dir_changed = 0}

RateConfigs == {c \in Configs : c.delay_us10 = 0}

InitRate == InitWith(Builds, RateConfigs)

NextRate ==
    \/ Engine
    \/ CycleTimerTick
    \/ stepperCyclesPerTick
    \/ CallEnable
    \/ PlannerCallback(RateCommands)
    \/ PlannerCallbackCycles

SpecRate == InitRate /\ [][NextRate]_vars

\* SpecMode: from driver_init on, every operation of the engine with
\* configurations applied at any time, in a reduced set of inputs
ModeConfigs ==
    { [pulse_us10 |-> 25, delay_us10 |-> 0,
       step_invert |-> 0, dir_invert |-> 0, enable_invert |-> 0],
      [pulse_us10 |-> 10, delay_us10 |-> 19,
       step_invert |-> 0, dir_invert |-> 0, enable_invert |-> 0] }

ModeCommands == {c \in Commands : Delayable(c)}

ModeCycles == {2^18}

InitMode == InitBoot(ModeConfigs)

NextMode ==
    \/ SettingsBeforeSetup(ModeConfigs)
    \/ driver_setup
    \/ ApplySettings(ModeConfigs)
    \/ settings_changed
    \/ PulseTimerTick
    \/ CycleTimerMatch
    \/ CallWakeUp
    \/ stepperWakeUp
    \/ CallGoIdle
    \/ stepperGoIdle
    \/ CyclesPerTick(ModeCycles)
    \/ CallEnable
    \/ CycleIrqEntry
    \/ STEPPER_IRQHandler
    \/ PlannerCallback(ModeCommands)
    \/ PlannerCallbackReturn
    \/ stepperPulseStart
    \/ stepperPulseStartDelayed
    \/ PulseIrqEntry
    \/ STEPPULSE_IRQHandler
    \/ STEPPULSE_Delayed_IRQHandler

SpecMode == InitMode /\ [][NextMode]_vars

\* SpecTiming: settings application alone, over pulse widths and delays
\* from below the fixed latency to beyond the range of int16_t
\* (tenths of a microsecond; 1367.7 us is the last width within the range)
TimingWidths == {0, 10, 23, 25, 28, 100, 13676, 13677, 27400, 40983}

TimingDelays == {0, 5, 19, 25, 13700}

TimingConfigs ==
    { [pulse_us10 |-> w, delay_us10 |-> d,
       step_invert |-> 0, dir_invert |-> 0, enable_invert |-> 0] :
      w \in TimingWidths, d \in TimingDelays }

InitTiming == InitWith({FALSE}, TimingConfigs)

NextTiming ==
    \/ ApplySettings(TimingConfigs)
    \/ settings_changed

SpecTiming == InitTiming /\ [][NextTiming]_vars

\* SpecVector: the vector registry under registrations and removals for
\* every tracked interrupt, with both timer interrupts dispatched through it
VectorCommands == {c \in Commands : c.step_out # 0 /\ c.dir_changed = 0}

VectorConfigs == {c \in Configs : c.step_invert = 4}

InitVector == InitWith({FALSE}, VectorConfigs)

NextVector ==
    \/ RegistryCall
    \/ RegistryWrite
    \/ DummyReturn
    \/ PulseTimerTick
    \/ CycleTimerMatch
    \/ CallWakeUp
    \/ stepperWakeUp
    \/ CycleIrqEntry
    \/ STEPPER_IRQHandler
    \/ PlannerCallback(VectorCommands)
    \/ PlannerCallbackReturn
    \/ stepperPulseStart
    \/ PulseIrqEntry
    \/ STEPPULSE_IRQHandler
    \/ STEPPULSE_Delayed_IRQHandler

SpecVector == InitVector /\ [][NextVector]_vars

\* SpecAtomic: the atomic helpers called by the foreground, with interrupts
\* enabled or disabled by the caller, while the timer interrupts go on
AtomicCommands == {c \in Commands : c.step_out = 0 /\ c.dir_changed = 0}

InitAtomic == InitWith({FALSE}, VectorConfigs)

NextAtomic ==
    \/ irq_disable
    \/ irq_enable
    \/ AtomicCall
    \/ AtomicDisable
    \/ AtomicUpdate
    \/ AtomicEnable
    \/ CallbackSetsBits
    \/ PulseTimerTick
    \/ CycleTimerMatch
    \/ CallWakeUp
    \/ stepperWakeUp
    \/ CycleIrqEntry
    \/ STEPPER_IRQHandler
    \/ PlannerCallback(AtomicCommands)
    \/ PlannerCallbackReturn
    \/ stepperPulseStart
    \/ PulseIrqEntry
    \/ STEPPULSE_IRQHandler

SpecAtomic == InitAtomic /\ [][NextAtomic]_vars

\* SpecLatch: the output latch under every bitmask, every step and
\* direction invert mask and enable invert masks of each axis
LatchConfigs ==
    { [pulse_us10 |-> 25, delay_us10 |-> 0,
       step_invert |-> s, dir_invert |-> d, enable_invert |-> e] :
      s \in LatchMasks, d \in LatchMasks, e \in {0, 5} }

InitLatch == InitWith({FALSE}, LatchConfigs)

NextLatch ==
    \/ LatchCall
    \/ LatchWrite

SpecLatch == InitLatch /\ [][NextLatch]_vars

\* SpecTerm: the engine of Spec with cycles_per_tick, under the scheduling
\* of the processor.  A handler that is active and not preempted executes
\* its next statement, and a pending interrupt that can be taken is taken
\* (weak fairness); a foreground operation executes its next statement if
\* it gets the processor again and again (strong fairness).  Each register
\* write is one step together with its wait for SYNCBUSY, which the
\* hardware clears.
TermConfigs == {c \in Configs : c.pulse_us10 = 10}

TermCommands == {c \in Commands : c.step_out # 0}

TermCycles == {F_STEP_TIMER \div 500}

InitTerm == InitWith({FALSE}, TermConfigs)

NextTerm ==
    \/ Engine
    \/ CyclesPerTick(TermCycles)
    \/ PlannerCallback(TermCommands)
    \/ stepperPulseStartDelayed
    \/ STEPPULSE_Delayed_IRQHandler

FairTerm ==
    /\ WF_vars(PulseIrqEntry)
    /\ WF_vars(STEPPULSE_IRQHandler)
    /\ WF_vars(STEPPULSE_Delayed_IRQHandler)
    /\ WF_vars(CycleIrqEntry)
    /\ WF_vars(STEPPER_IRQHandler)
    /\ WF_vars(PlannerCallback(TermCommands))
    /\ WF_vars(PlannerCallbackReturn)
    /\ WF_vars(stepperPulseStart)
    /\ WF_vars(stepperPulseStartDelayed)
    /\ SF_vars(stepperWakeUp)
    /\ SF_vars(stepperGoIdle)

SpecTerm == InitTerm /\ [][NextTerm]_vars /\ FairTerm

\* SpecDelay: calls of hal.delay_ms with every argument, one after the
\* other, while the SysTick interrupt arrives at any moment once enabled
InitDelay == InitWith({FALSE}, VectorConfigs)

NextDelay ==
    \/ DelayCall
    \/ driver_delay_ms
    \/ SysTick_IRQHandler

SpecDelay == InitDelay /\ [][NextDelay]_vars

\* the receive side of the serial stream, for either build; over USB, where
\* the order of fetching is the foreground's own, one data character and
\* the realtime character arrive
InitRx ==
    /\ EngineInit({FALSE}, VectorConfigs)
    /\ DelayInit
    /\ SerialInit(BOOLEAN)
    /\ I2cInit

NextRx ==
    \/ SerialArrive(RxChars)
    \/ SERIAL_IRQHandler
    \/ GetCall
    \/ serialGetC
    \/ UsbArrive({1, RealtimeChar})
    \/ usb_execute_realtime
    \/ usbGetC

SpecRx == InitRx /\ [][NextRx]_vars

\* the transmit side of the UART stream; realtime characters keep arriving,
\* so the handler also runs when the transmit interrupt is disabled
NextTx ==
    \/ PutCall
    \/ serialPutC
    \/ SERIAL_IRQHandler
    \/ UartShift
    \/ SerialArrive({RealtimeChar})

\* the handler runs once its interrupt is pending and the USART sends what
\* is in its data register
FairTx == WF_vars(SERIAL_IRQHandler) /\ WF_vars(UartShift)

SpecTx == InitWith({FALSE}, VectorConfigs) /\ [][NextTx]_vars /\ FairTx

\* the I2C master and its callers
NextI2c ==
    \/ i2c_send
    \/ i2c_receive
    \/ I2C_ReadRegister
    \/ I2cWaitDone
    \/ I2cBusEvent
    \/ I2C_interrupt_handler

\* a transfer under way ends in an interrupt request, a requested interrupt
\* is served, and a caller in while(i2cIsBusy) keeps polling
FairI2c ==
    /\ WF_vars(I2cBusEvent)
    /\ WF_vars(I2C_interrupt_handler)
    /\ WF_vars(I2cWaitDone)

SpecI2c == InitWith({FALSE}, VectorConfigs) /\ [][NextI2c]_vars /\ FairI2c

(***************************************************************************)
(* Properties                                                              *)
(***************************************************************************)
\* inactive levels of the outputs: logical 0 XOR the invert mask
StepsInactive == stepPins = Xor(0, settings.step_invert)

DirsInactive == dirPins = Xor(0, settings.dir_invert)

\* level of steppersEnable with the drives enabled
EnableAsserted == Bit(Xor(AXES_BITMASK, settings.enable_invert), 0)

\* the ceiling of the cycle value: 2^18 under adaptive smoothing, else 2^23
Ceiling == IF amass THEN 2^18 ELSE 2^23

\* the pulse timer is enabled, no one-shot is running or pending and no
\* interrupt is active
Quiescent ==
    /\ tc3.enable
    /\ ~tc3.run
    /\ tc3.flag = 0
    /\ pulPC = "none"
    /\ cycPC = "none"

\* C1: in Delayed mode, from Idle, pulse_start with a direction change and a
\* step writes the direction outputs at once (they hold dir_out XOR the
\* invert mask for the rest of the call), keeps the step outputs inactive
\* during the wait, asserts the command's step pattern when exactly
\* pulse_delay ticks have been counted since the trigger, and clears the
\* step outputs when exactly pulse_length ticks have been counted since the
\* re-trigger.
C1_DelayedPulse ==
    /\ (watch.ph = "delay"
          /\ cycPC \in {"psd_reg", "psd_store", "psd_cc", "psd_trig"})
       => dirPins = Xor(st.dir_out, settings.dir_invert)
    /\ watch.ph = "delay" => StepsInactive
    /\ watch.ph = "dpulse"
       => /\ watch.at = pulse_delay
          /\ stepPins = Xor(watch.pat, settings.step_invert)
    /\ watch.ph = "ddone"
       => /\ watch.at = pulse_length
          /\ StepsInactive

\* C1 witness: a delayed pulse cycle of pattern 0b010 has run to its end
C1_Witness == watch.ph = "ddone" /\ watch.pat = 2

\* C2: every delayed command is consumed exactly once: whenever the
\* delay-elapsed handler writes the step outputs it writes the step_out of
\* the latest delayed command, which it has not written before, and when
\* the pulse machine has come to rest no delayed command is left unwritten.
C2_ConsumedOnce ==
    /\ dwrite.pat = dwrite.want
    /\ Quiescent => owed = 0

\* C3: in Immediate mode the step write of pulse_start puts step_out XOR
\* the step invert mask on the step outputs, and the end-pulse interrupt
\* that follows the trigger comes when exactly pulse_length ticks have been
\* counted and leaves every step output inactive.
C3_ImmediatePulse ==
    [][ /\ (pulse_start = ImmediateFn /\ cycPC = "ps_step" /\ cycPC' = "ps_trig")
           => stepPins' = Xor(st.step_out, settings.step_invert)
        /\ (watch.ph = "ipulse" /\ watch'.ph = "idone")
           => /\ watch'.at = pulse_length
              /\ StepsInactive' ]_vars

\* C3 witness: an immediate pulse of pattern 0b101 has been ended
C3_Witness == watch.ph = "idone" /\ watch.pat = 5

PulseStartPCs ==
    {"ps_dir", "ps_step", "ps_trig", "psd_dir", "psd_reg", "psd_store",
     "psd_cc", "psd_trig", "psd_step", "psd_trig2"}

\* C4: a pulse_start whose command has no direction change and no step, in
\* either mode, from the call to the return, leaves the step and direction
\* outputs, the pulse timer (compare value, count, running, flag), the
\* registered handler and next_step_outbits unchanged.
C4_EmptyCommand ==
    [][ ( \/ cycPC = "cb" /\ cycPC' # cycPC
             /\ st'.dir_changed = 0 /\ st'.step_out = 0
          \/ cycPC \in PulseStartPCs /\ cycPC' # cycPC
             /\ st.dir_changed = 0 /\ st.step_out = 0 /\ st.dir_out = 0 )
        => UNCHANGED <<stepPins, dirPins, tc3, vectorTable, next_step_outbits>>
      ]_vars

\* C4 witness: the delayed pulse_start has returned from an empty command
\* issued while a one-shot was running
C4_Witness ==
    /\ cycPC = "cb_after"
    /\ pulse_start = DelayedFn
    /\ st = [step_out |-> 0, dir_out |-> 0, dir_changed |-> 0]
    /\ tc3.run

\* C5: when go_idle(true) returns, every step output and every direction
\* output is at its inactive level.
C5_GoIdleClears ==
    [][ (fgPC = "gi_dirs" /\ fgPC' = "idle")
        => (StepsInactive' /\ DirsInactive') ]_vars

\* C6: from the return of go_idle(true) until the next pulse_start, the
\* step and direction outputs stay inactive (no pulse-timer interrupt
\* writes them).
C6_IdleHolds == idleHold => (StepsInactive /\ DirsInactive)

\* C7: from the return of go_idle (either clear_signals) until wake_up
\* starts the timer again, the cycle timer is stopped, no cycle-timer
\* interrupt is pending and the cycle-timer handler with its planner
\* callback does not run.
C7_StoppedStays ==
    rcStopped => (~tc4.run /\ tc4.flag = 0 /\ cycPC = "none")

\* C7 witness: the rate controller is Stopped after the planner callback
\* has delivered a step command, i.e. after it was Running
C7_Witness == rcStopped /\ st.step_out # 0 /\ fgPC = "idle"

\* C8: the compare register of the cycle timer holds min(v, ceiling - 1)
\* for the argument v of the latest cycles_per_tick.
C8_ClampIsMin == tc4.cc = Min(cptArg, Ceiling - 1)

\* C8 witness: with adaptive smoothing, v = 2^18 was programmed as 2^18 - 1
C8_Witness == amass /\ cptArg = 2^18 /\ tc4.cc = 2^18 - 1

\* C9: the compare register of the cycle timer is always below the ceiling.
C9_BelowCeiling == tc4.cc < Ceiling

\* C9 witness: without adaptive smoothing, the largest argument was clamped
C9_Witness == ~amass /\ cptArg = 2147483647 /\ tc4.cc = 2^23 - 1

\* C10: in a wake_up from Stopped the cycle timer does not run, and no
\* cycle-timer interrupt is pending or active, before the timer is started;
\* the drive-enable output is asserted before the count is reset; and the
\* count is zero when the timer is started.
C10_WakeUpOrder ==
    /\ (rcStopped /\ fgPC \in {"wu_enable", "wu_count", "wu_start"})
       => (~tc4.run /\ tc4.flag = 0 /\ cycPC = "none")
    /\ fgPC \in {"wu_count", "wu_start"} => enablePin = EnableAsserted
    /\ (rcStopped /\ fgPC = "wu_start") => tc4.count = 0

\* C10 witness: a wake_up from Stopped, after an earlier run, is about to
\* start the timer under an inverted enable mask
C10_Witness ==
    /\ fgPC = "wu_start"
    /\ rcStopped
    /\ tc3.enable
    /\ settings.enable_invert = 1

\* C11: the compare value wake_up leaves is the smallest cycle value the
\* rate controller programs: no cycles_per_tick argument programs a smaller
\* one, so that the first interrupt after wake_up is the earliest possible.
C11_WakeUpMinimal ==
    [][ (fgPC = "wu_cpt" /\ fgPC' = "idle")
        => \A v \in CycleValues : tc4'.cc <= CyclesReg(v) ]_vars

\* C12: once a configuration has been applied, pulse_start is the
\* immediate variant if the configured delay is 0 and the delayed variant
\* if it is greater than 0.
C12_ModeByDelay ==
    fgPC = "idle"
    => pulse_start = (IF settings.delay_us10 > 0 THEN DelayedFn
                      ELSE ImmediateFn)

\* C12 witness: a configuration without delay has been applied after one
\* with a delay (pulse_delay still holds the ticks of the earlier delay)
C12_Witness ==
    /\ fgPC = "idle"
    /\ ~idleHold
    /\ settings.delay_us10 = 0
    /\ pulse_delay >= 2
    /\ pulse_start = ImmediateFn

\* C13: pulse_length is at least 2 for every width, pulse_delay is at least
\* 2 whenever the delayed variant is active, and the compare value of the
\* pulse timer is never 0 or 1.
C13_TicksAtLeastTwo ==
    /\ pulse_length >= 2
    /\ pulse_start = DelayedFn => pulse_delay >= 2
    /\ tc3.cc >= 2

\* C13 witness: after setup, a width beyond the range of int16_t has been
\* applied in Delayed mode with a delay below the fixed offset
C13_Witness ==
    /\ fgPC = "idle"
    /\ ~idleHold
    /\ settings.pulse_us10 = 13677
    /\ settings.delay_us10 = 5
    /\ pulse_start = DelayedFn
    /\ tc3.cc = pulse_length

\* n / d rounded to the nearest integer (halves away from zero)
RoundDiv(n, d) ==
    IF n >= 0 THEN (2 * n + d) \div (2 * d) ELSE -((2 * (-n) + d) \div (2 * d))

\* the recomputation rule: max(2, round(24 * (us - offset)) - 1)
RuleTicks(us10, offset10) ==
    LET t == RoundDiv(TICKS_PER_US * (us10 - offset10), 10) - 1
    IN  IF t < 2 THEN 2 ELSE t

\* C14: once a configuration has been applied, pulse_length is
\* max(2, round(24 * (width - 2.3)) - 1) and, when the delay is not zero,
\* pulse_delay is max(2, round(24 * (delay - 1.7)) - 1).
C14_TickRule ==
    fgPC = "idle"
    => /\ pulse_length = RuleTicks(settings.pulse_us10, STEP_PULSE_LATENCY10)
       /\ settings.delay_us10 > 0
          => pulse_delay = RuleTicks(settings.delay_us10, STEP_DELAY_OFFSET10)

\* C15: set_step_outputs(b) leaves each step pin at that axis's bit of
\* b XOR step_invert and changes no direction pin, no enable pin and no
\* setting; set_dir_outputs(b) leaves each direction pin at that axis's bit
\* of b XOR dir_invert and changes no step pin, no enable pin and no setting.
C15_LatchXor ==
    [][ /\ (fgPC = "ls_steps" /\ fgPC' = "idle")
           => /\ \A i \in Axes :
                   Bit(stepPins', i) = Bit(Xor(fgArg, settings.step_invert), i)
              /\ UNCHANGED <<dirPins, enablePin, settings>>
        /\ (fgPC = "ls_dirs" /\ fgPC' = "idle")
           => /\ \A i \in Axes :
                   Bit(dirPins', i) = Bit(Xor(fgArg, settings.dir_invert), i)
              /\ UNCHANGED <<stepPins, enablePin, settings>> ]_vars

\* C15 witness: set_step_outputs(5) under step invert 3 and
\* set_dir_outputs(2) under direction invert 6 have both written their pins
C15_Witness ==
    /\ fgPC = "idle"
    /\ settings.step_invert = 3
    /\ stepPins = 6
    /\ settings.dir_invert = 6
    /\ dirPins = 4

\* the drive-enable output of axis i: the board has the one line
\* steppersEnable for the drives of all axes
EnableOutput(i) == enablePin

\* C20: enable(axes_mask, hold) leaves the drive-enable output of each axis
\* at that axis's bit of axes_mask XOR enable_invert.
C20_EnablePerAxis ==
    [][ (fgPC = "ls_enable" /\ fgPC' = "idle")
        => \A i \in Axes :
              EnableOutput(i)' = Bit(Xor(fgArg, settings.enable_invert), i)
      ]_vars

\* the statements that store into vectorTable
RegistryStores ==
    \/ fgPC \in RegistryPCs
    \/ fgPC = "sc_reg"
    \/ cycPC = "psd_reg"
    \/ pulPC = "dl_reg"

\* C16: IRQRegister(id, handler) leaves the entry of id holding handler and
\* IRQUnRegister(id) leaves it holding Dummy_Handler, whatever it held; the
\* entries of all other ids are unchanged; no other statement changes an
\* entry; and a timer interrupt is dispatched to the handler its entry
\* holds, the one most recently installed.
C16_Registry ==
    [][ /\ (fgPC = "vr_reg" /\ fgPC' = "idle")
           => /\ vectorTable'[fgArg.id + VECTOR_OFFSET] = fgArg.handler
              /\ \A n \in IrqIds \ {fgArg.id} :
                    vectorTable'[n + VECTOR_OFFSET] = Vector(n)
        /\ (fgPC = "vr_unreg" /\ fgPC' = "idle")
           => /\ vectorTable'[fgArg.id + VECTOR_OFFSET] = Dummy_Handler
              /\ \A n \in IrqIds \ {fgArg.id} :
                    vectorTable'[n + VECTOR_OFFSET] = Vector(n)
        /\ vectorTable' # vectorTable => RegistryStores
        /\ (pulPC = "none" /\ pulPC' # "none")
           => pulPC' = HandlerEntry(Vector(STEP_TIMER_IRQn))
        /\ (cycPC = "none" /\ cycPC' # "none")
           => cycPC' = HandlerEntry(Vector(STEPPER_TIMER_IRQn)) ]_vars

\* C16 witness: in Immediate mode the pulse-timer interrupt has been
\* dispatched to the delay-elapsed handler a caller registered, while the
\* cycle-timer entry holds the fallback after an IRQUnRegister and the
\* SysTick entry still holds its handler
C16_Witness ==
    /\ pulse_start = ImmediateFn
    /\ pulPC = "dl_ack"
    /\ Vector(STEP_TIMER_IRQn) = DelayHandler
    /\ Vector(STEPPER_TIMER_IRQn) = Dummy_Handler
    /\ Vector(SysTick_IRQn) = SysTickHandler

\* C17: the pulse-timer interrupt has the higher priority.  While a pulse
\* expiry is pending and interrupts are enabled the cycle handler (callback
\* and pulse_start included) makes no step, so the next instruction executed
\* is the pulse handler's; and while the pulse handler runs the cycle
\* handler neither starts nor continues.
C17_PulsePriority ==
    [][ /\ (cycPC # "none" /\ pulPC = "none" /\ tc3.flag = 1 /\ irqEnabled)
           => /\ cycPC' = cycPC
              /\ pulPC' # "none" => pulPC' = HandlerEntry(Vector(STEP_TIMER_IRQn))
        /\ pulPC # "none" => cycPC' = cycPC ]_vars

\* C17 witness: the pulse handler runs while the cycle handler is suspended
\* inside pulse_start, with a cycle expiry pending that does not preempt it
C17_Witness ==
    /\ pulPC # "none"
    /\ cycPC \in PulseStartPCs
    /\ tc4.flag = 1

\* C18: each atomic helper runs its update with interrupts disabled, no
\* handler starting between its __disable_irq and its return, and on return
\* the global interrupt-enable state equals the state on entry, also when
\* the caller had already disabled interrupts.
C18_AtomicRestores ==
    [][ /\ fgPC \in {"at_update", "at_enable"}
           => /\ ~irqEnabled
              /\ pulPC' = pulPC
              /\ cycPC' = cycPC
        /\ (fgPC = "at_enable" /\ fgPC' = "idle")
           => irqEnabled' = fgArg.entry ]_vars

\* the cycle handler's positions inside the planner callback, the
\* pulse_start it calls included
CallbackPCs == {"cb", "cb_after"} \cup PulseStartPCs

\* C19: the cycle handler is entered only on a pending expiry; its first
\* statement acknowledges the flag and only that step leads to the
\* callback, which is entered once per handler run; nothing else in the
\* handler clears the flag, so an expiry raised during the callback stays
\* pending, and with it pending after the return the foreground does not
\* run before the handler is entered again.
C19_AckThenCallback ==
    [][ /\ (cycPC = "none" /\ cycPC' # "none")
           => tc4.flag = 1 /\ cycPC' = "irq_ack"
        /\ (cycPC = "irq_ack" /\ cycPC' # "irq_ack")
           => tc4'.flag = 0 /\ cycPC' = "cb"
        /\ (cycPC # "cb" /\ cycPC' = "cb") => cycPC = "irq_ack"
        /\ (cycPC \in CallbackPCs /\ tc4.flag = 1) => tc4'.flag = 1
        /\ (cycPC = "none" /\ tc4.flag = 1 /\ irqEnabled)
           => tc4'.flag = 1 /\ fgPC' = fgPC ]_vars

\* C19 witness: a cycle expiry is pending while the cycle handler, its flag
\* acknowledged, is inside the callback
C19_Witness ==
    /\ cycPC \in CallbackPCs
    /\ tc4.flag = 1
    /\ tc4.run

\* Pulse state machine state, read off the registered pulse-timer handler
\* and the step outputs
PulseState ==
    IF StepsInactive
    THEN (IF Vector(STEP_TIMER_IRQn) = DelayHandler
          THEN "WaitingDelay" ELSE "Idle")
    ELSE (IF Vector(STEP_TIMER_IRQn) = DelayHandler
          THEN "PulsingBeforeDelay" ELSE "Pulsing")

\* no pulse_start and no pulse-timer handler is in the middle of its body
BetweenPulseOps ==
    /\ pulPC = "none"
    /\ cycPC \notin PulseStartPCs
    /\ fgPC \notin SettingsPCs

\* C21: in Delayed mode, between operations the pulse state machine is in
\* Idle, WaitingDelay or Pulsing (a step pattern is never on the outputs
\* while the delay-elapsed handler is registered), and once the pulse timer
\* has run out with no call in progress it is in Idle: end-pulse handler
\* registered, compare value pulse_length, step outputs inactive.
C21_DelayedPaths ==
    (pulse_start = DelayedFn /\ BetweenPulseOps)
    => /\ PulseState \in {"Idle", "WaitingDelay", "Pulsing"}
       /\ Quiescent
          => /\ PulseState = "Idle"
             /\ tc3.cc = pulse_length

\* C22: the delay-elapsed handler executes, in this order, the acknowledge,
\* the compare write of pulse_length, the write of next_step_outbits to the
\* step outputs, the counter reset, the registration of the end-pulse
\* handler and the re-trigger; on its return the end-pulse handler is
\* registered; and, no new pulse_start having been called since, the next
\* expiry of the pulse timer comes pulse_length ticks after that return, is
\* dispatched to the end-pulse handler and leaves the step outputs inactive.
C22_DelayElapsed ==
    [][ /\ (pulPC = "dl_ack" /\ pulPC' # pulPC)
           => pulPC' = "dl_cc" /\ tc3'.flag = 0
        /\ (pulPC = "dl_cc" /\ pulPC' # pulPC)
           => pulPC' = "dl_steps" /\ tc3'.cc = pulse_length
        /\ (pulPC = "dl_steps" /\ pulPC' # pulPC)
           => /\ pulPC' = "dl_count"
              /\ stepPins' = Xor(next_step_outbits, settings.step_invert)
        /\ (pulPC = "dl_count" /\ pulPC' # pulPC)
           => pulPC' = "dl_reg" /\ tc3'.count = 0
        /\ (pulPC = "dl_reg" /\ pulPC' # pulPC)
           => /\ pulPC' = "dl_trig"
              /\ vectorTable'[STEP_TIMER_IRQn + VECTOR_OFFSET] = EndPulseHandler
        /\ (pulPC = "dl_trig" /\ pulPC' # pulPC)
           => /\ pulPC' = "none"
              /\ tc3.enable => tc3'.run /\ tc3'.count = 0
              /\ vectorTable'[STEP_TIMER_IRQn + VECTOR_OFFSET] = EndPulseHandler
        /\ (afterDelay.ph = "armed" /\ afterDelay'.ph = "expired")
           => afterDelay'.ticks = pulse_length
        /\ (afterDelay.ph = "expired" /\ pulPC = "none" /\ pulPC' # "none")
           => pulPC' = "ep_ack"
        /\ (afterDelay.ph = "expired" /\ pulPC = "ep_clear" /\ pulPC' = "none")
           => StepsInactive' ]_vars

\* C23: in Delayed mode a pulse_start with no direction change and a step
\* does what the Immediate pulse_start does: its step write puts step_out
\* XOR the invert mask on the step outputs, and the one-shot it triggers
\* runs for pulse_length and is dispatched to the end-pulse handler, in
\* every state the call can be made in.
C23_StepOnlyAsImmediate ==
    [][ /\ (pulse_start = DelayedFn /\ cycPC = "psd_step" /\ st.step_out # 0
              /\ cycPC' # cycPC)
           => /\ cycPC' = "psd_trig2"
              /\ stepPins' = Xor(st.step_out, settings.step_invert)
        /\ (cycPC = "psd_trig2" /\ cycPC' # cycPC)
           => /\ tc3'.cc = pulse_length
              /\ vectorTable'[STEP_TIMER_IRQn + VECTOR_OFFSET] = EndPulseHandler
      ]_vars

\* C24: in Delayed mode a pulse_start with a direction change and no step
\* writes dir_out XOR the invert mask to the direction outputs and returns
\* at once: the step outputs, the pulse timer (compare value, count,
\* running, flag), the registered handlers and next_step_outbits are as
\* they were at the call.
C24_DirOnly ==
    [][ (pulse_start = DelayedFn /\ cycPC = "psd_dir" /\ cycPC' # cycPC
           /\ st.dir_changed # 0 /\ st.step_out = 0)
        => /\ cycPC' = "cb_after"
           /\ dirPins' = Xor(st.dir_out, settings.dir_invert)
           /\ UNCHANGED <<stepPins, tc3, vectorTable, next_step_outbits>>
      ]_vars

\* C24 witness: the delayed pulse_start has returned from a command with a
\* direction change and no step, called while a one-shot was running
C24_Witness ==
    /\ cycPC = "cb_after"
    /\ pulse_start = DelayedFn
    /\ st = [step_out |-> 0, dir_out |-> 5, dir_changed |-> 0]
    /\ dirPins = Xor(5, settings.dir_invert)
    /\ tc3.run

\* C25: when pulse_start has returned, in either mode and for every
\* command, dir_changed is zero; no statement executed during the call
\* modifies step_out or dir_out; the command is written only by the planner
\* loading it and by pulse_start clearing the flag; and next_step_outbits
\* is a copy: it takes the value of step_out at the store and is not
\* changed when the planner later loads another command.
C25_CommandFrame ==
    [][ /\ cycPC' = "cb_after" => st'.dir_changed = 0
        /\ cycPC \in PulseStartPCs
           => st'.step_out = st.step_out /\ st'.dir_out = st.dir_out
        /\ st' # st => cycPC \in {"cb", "ps_dir", "psd_dir"}
        /\ next_step_outbits' # next_step_outbits
           => cycPC = "psd_store" /\ next_step_outbits' = st.step_out
        /\ cycPC = "cb" => next_step_outbits' = next_step_outbits ]_vars

\* C25 witness: in Delayed mode pulse_start has returned from a command
\* with a direction change, its flag cleared and its other fields intact,
\* while next_step_outbits still holds the step_out of an earlier command
C25_Witness ==
    /\ pulse_start = DelayedFn
    /\ cycPC = "cb_after"
    /\ st = [step_out |-> 0, dir_out |-> 5, dir_changed |-> 0]
    /\ dirPins = Xor(5, settings.dir_invert)
    /\ next_step_outbits = 2

\* C26: the step outputs of a command are asserted after its direction
\* write.  In Immediate mode the step write of pulse_start comes when the
\* direction branch of the same call is done.  In Delayed mode the pattern
\* stored by a call with a direction change and a step is written by the
\* delay-elapsed handler only after that call has triggered the delay, and
\* then pulse_delay ticks or more after the trigger.
C26_DirBeforeStep ==
    [][ /\ (cycPC = "ps_step" /\ cycPC' = "ps_trig") => st.dir_changed = 0
        /\ (pulPC = "dl_steps" /\ pulPC' = "dl_count" /\ owed # 0)
           => /\ cycPC \notin {"psd_cc", "psd_trig"}
              /\ cycPC \notin {"psd_dir", "psd_reg", "psd_store"}
                 => pulseTicks >= pulse_delay ]_vars

\* C27: hal.stepper.pulse_start is assigned only by a configuration
\* application: the one driver_setup makes and the mode statement of
\* settings_changed.  No step of pulse_start, of a timer interrupt, of
\* wake_up, go_idle, enable or cycles_per_tick changes it, and until
\* driver_setup applies the configuration it is stepperPulseStart.
C27_ModeFrame ==
    /\ [](fgPC = "boot" => pulse_start = ImmediateFn)
    /\ [][ pulse_start' # pulse_start
           => \/ fgPC = "sc_delay" /\ fgPC' = "sc_next"
              \/ fgPC = "boot" /\ fgPC' = "idle" ]_vars

\* C27 witness: the mode is Immediate again after having been Delayed
\* (pulse_delay keeps the ticks computed then), cycles_per_tick has been
\* called, and the cycle handler is inside the immediate pulse_start while
\* the end-pulse handler runs
C27_Witness ==
    /\ pulse_start = ImmediateFn
    /\ pulse_delay >= 2
    /\ cptArg = 2^18
    /\ cycPC = "ps_trig"
    /\ pulPC = "ep_clear"

\* C28: when settings_changed returns (I/O initialised) the pulse state
\* machine is in its Idle configuration, whatever state it was in at the
\* call: the end-pulse handler is registered for the pulse timer, the
\* compare value is the pulse_length just computed from the settings, and
\* next_step_outbits is empty.
C28_ConfigLeavesIdle ==
    [][ (fgPC = "sc_cc" /\ fgPC' = "idle")
        => /\ vectorTable'[STEP_TIMER_IRQn + VECTOR_OFFSET] = EndPulseHandler
           /\ pulse_length' \in TimerTicks(settings.pulse_us10,
                                           STEP_PULSE_LATENCY10)
           /\ tc3'.cc = pulse_length'
           /\ next_step_outbits' = 0 ]_vars

\* C29: wherever the pulse-timer interrupt can be taken (interrupts
\* enabled, the pulse handler not running) the registered handler, the
\* compare value and next_step_outbits agree: with the delay-elapsed
\* handler registered the compare value is pulse_delay and
\* next_step_outbits is the non-empty step_out of the latest pulse_start
\* with a direction change and a step; with the end-pulse handler
\* registered the compare value is pulse_length.
C29_HandlerAgrees ==
    (irqEnabled /\ pulPC = "none")
    => /\ Vector(STEP_TIMER_IRQn) = DelayHandler
          => /\ tc3.cc = pulse_delay
             /\ next_step_outbits # 0
             /\ next_step_outbits = owed
       /\ Vector(STEP_TIMER_IRQn) = EndPulseHandler
          => tc3.cc = pulse_length

\* C30: in Immediate mode a pulse_start with a step, also when called
\* while an earlier pulse is in progress, re-triggers the one-shot with its
\* pattern on the step outputs; the pattern stays there until the
\* end-pulse interrupt, which comes when pulse_length ticks have been
\* counted since the latest trigger and leaves the outputs inactive; and
\* no further pulse-timer interrupt follows before the next pulse_start.
C30_Retrigger ==
    [][ /\ (pulse_start = ImmediateFn /\ cycPC = "ps_trig"
              /\ cycPC' = "cb_after")
           => stepPins = Xor(st.step_out, settings.step_invert)
        /\ watch'.ph = "ipulse"
           => stepPins' = Xor(watch'.pat, settings.step_invert)
        /\ (watch.ph = "ipulse" /\ watch'.ph = "idone")
           => watch'.at = pulse_length /\ StepsInactive'
        /\ watch.ph = "idone" => pulPC' = "none" ]_vars

\* C31: go_idle(clear_signals = false) is one register write: it stops the
\* cycle timer and returns, and leaves the step outputs, the direction
\* outputs, the pulse timer, the registered handlers and the drive-enable
\* output as they are.
C31_GoIdleKeeps ==
    [][(fgPC = "gi_stop" /\ fgArg = 0 /\ fgPC' # "gi_stop")
       => /\ ~tc4'.run
          /\ fgPC' = "idle"
          /\ UNCHANGED <<stepPins, dirPins, tc3, vectorTable, enablePin>>]_vars

\* go_idle(false) has returned while a pulse was on the step outputs and a
\* direction was set: the cycle timer is stopped, the pulse timer still runs
C31_Witness ==
    /\ fgPC = "idle"
    /\ fgArg = 0
    /\ rcStopped
    /\ ~tc4.run
    /\ tc3.run
    /\ stepPins # settings.step_invert
    /\ dirPins # settings.dir_invert

\* C32: the direction outputs change only in the direction step of a
\* pulse_start whose dir_changed is non-empty and in the direction step of
\* go_idle(true); such a pulse_start leaves every direction output at its
\* bit of dir_out XOR the direction invert mask; a step of a pulse-timer
\* handler or of the cycle-timer handler proper never changes them.
C32_DirWriters ==
    [][ /\ dirPins' # dirPins
           => \/ /\ cycPC \in {"ps_dir", "psd_dir"}
                 /\ cycPC' # cycPC
                 /\ st.dir_changed # 0
              \/ /\ fgPC = "gi_dirs"
                 /\ fgPC' = "idle"
                 /\ fgArg = 1
        /\ (cycPC \in {"ps_dir", "psd_dir"} /\ cycPC' # cycPC
              /\ st.dir_changed # 0)
           => dirPins' = Xor(st.dir_out, settings.dir_invert)
        /\ (pulPC' # pulPC \/ cycPC \in {"irq_ack", "cb", "cb_after"})
           => dirPins' = dirPins ]_vars

\* the direction step of a pulse_start with dir_changed = 2 has written all
\* three direction outputs, and the pulse-timer handler has preempted the
\* call right after it
C32_Witness ==
    /\ cycPC = "ps_step"
    /\ st = [step_out |-> 2, dir_out |-> 2, dir_changed |-> 0]
    /\ dirPins = Xor(2, settings.dir_invert)
    /\ pulPC # "none"

\* C33: every interrupt handler that has started returns, with the planner
\* callback and the pulse_start it calls; and every foreground operation
\* (wake_up, go_idle; cycles_per_tick is a single step) returns, provided
\* the interrupts leave the foreground the processor again and again.
C33_Terminates ==
    /\ (pulPC # "none" ~> pulPC = "none")
    /\ (cycPC # "none" ~> cycPC = "none")
    /\ ([]<>FgRuns => (fgPC # "idle" ~> fgPC = "idle"))

\* a pulse-timer handler has preempted the cycle-timer handler, which has
\* interrupted a foreground operation: all three are under way
C33_Witness ==
    /\ pulPC = "ep_clear"
    /\ cycPC \in {"ps_trig", "psd_cc"}
    /\ fgPC \notin {"idle", "boot"}

\* C34: from the first access of the word to the store, interrupts are
\* disabled, no handler starts or advances and nothing else writes the word;
\* the store of bitsSetAtomic leaves the word as it was with exactly the
\* given bits ORed in, and at the store of bitsClearAtomic and valueSetAtomic
\* prev is the value the word holds, so the update is applied to the current
\* value and an update made from interrupt context is not lost.
C34_AtomicUpdate ==
    [][ /\ fgPC \in {"at_update", "at_load", "at_store"}
           => /\ ~irqEnabled
              /\ pulPC' = pulPC
              /\ cycPC' = cycPC
              /\ word' # word => fgPC = "at_store"
        /\ (fgPC = "at_store" /\ fgPC' = "at_enable")
           => CASE fgArg.fn = "bitsSetAtomic" ->
                      word' = BitOr(word, fgArg.operand)
                [] fgArg.fn = "bitsClearAtomic" ->
                      /\ word' = BitAndNot(word, fgArg.operand)
                      /\ fgArg.prev = word
                [] OTHER ->
                      /\ word' = fgArg.operand
                      /\ fgArg.prev = word ]_vars

\* bitsClearAtomic is about to store while a cycle-timer interrupt is
\* pending and held off, after the callback has set its flag in the word
C34_Witness ==
    /\ fgPC = "at_store"
    /\ fgArg.fn = "bitsClearAtomic"
    /\ fgArg.entry
    /\ tc4.flag = 1
    /\ Bit(word, 2) = 1
    /\ fgArg.prev = word

\* C35: of a call delay_ms(ms, callback), counted from its store of ms:
\* no callback other than the requested one is invoked; with ms > 0 and a
\* callback the call does not wait, and the callback is invoked once, by the
\* tick handler, in the ms-th tick, so that it has been invoked once that
\* tick is handled; with ms = 0 and a callback it has been invoked once, by
\* the call itself, when the call returns; with ms > 0 and no callback the
\* call has returned only if the tick counter is zero.
C35_DelayCallback ==
    /\ ~delayObs.stale
    /\ (delayArg.ms > 0 /\ delayArg.callback # 0)
       => /\ delayPC # "dm_wait"
          /\ delayObs.calls <= 1
          /\ delayObs.calls = 1
             => (delayObs.where = "tick" /\ delayObs.at = delayArg.ms)
          /\ delayObs.ticks >= delayArg.ms => delayObs.calls = 1
    /\ (delayArg.ms = 0 /\ delayArg.callback # 0 /\ delayPC = "idle")
       => (delayObs.calls = 1 /\ delayObs.where = "foreground")
    /\ (delayArg.ms > 0 /\ delayArg.callback = 0 /\ delayPC = "idle")
       => delay_ms.ms = 0

C37_GetCOrder ==
    [][/\ (serPC = "gc_store" /\ serPC' = "idle")
          => (/\ rxHeld # <<>>
              /\ serRet' = Head(rxHeld)
              /\ RingContents(rxbuf') = Tail(rxHeld)
              /\ rxbuf'.head = rxbuf.head)
       /\ (serPC = "gc_head" /\ serPC' # "gc_head")
          => (/\ (serPC' = "idle") <=> (rxHeld = <<>>)
              /\ (serPC' = "idle") => (serRet' = 0 - 1 /\ rxbuf' = rxbuf)
              /\ (serPC' = "gc_data") => (rxbuf' = rxbuf))
       /\ (serPC \in {"gc_tail", "gc_head", "gc_data", "gc_store"}
           /\ Len(rxHeld') > Len(rxHeld))
          => (/\ Len(rxHeld') = Len(rxHeld) + 1
              /\ SubSeq(rxHeld', 1, Len(rxHeld)) = rxHeld
              /\ RingContents(rxbuf') = rxHeld')]_vars

\* serialGetC has returned character 2 while character 1, which arrived
\* after it, is still stored and a later character has been dropped
C37_Witness ==
    /\ ~usbCdc
    /\ serPC = "idle"
    /\ serRet = 2
    /\ rxHeld = <<1>>
    /\ rxbuf.overflow = 1

C39_Send ==
    /\ [](i2cLog.op = "send" =>
            /\ Len(i2cLog.sent) <= i2cLog.n
            /\ \A k \in DOMAIN i2cLog.sent : i2cLog.sent[k] = k
            /\ Len(i2cLog.sent) <= i2cLog.irqs
            /\ i2cLog.stops <= 1
            /\ i2cLog.err <=> i2c.state = "Error"
            /\ i2c.state = "Idle" =>
                  /\ Len(i2cLog.sent) = i2cLog.n
                  /\ i2cLog.stops = 1
                  /\ i2c.count = 0
                  /\ i2cLog.irqs = i2cLog.n + 1
            /\ i2c.state = "Error" => (i2cLog.stops = 1 /\ ~i2cIsBusy))
    /\ [][(i2cLog.op = "send" /\ i2cLog'.irqs = i2cLog.irqs + 1
           /\ i2c'.state # i2c.state)
          => \/ i2c'.state = "Error"
             \/ <<i2c.state, i2c'.state>> \in
                   {<<"SendNext", "SendLast">>,
                    <<"SendLast", "AwaitCompletion">>,
                    <<"AwaitCompletion", "Idle">>}]_vars
    /\ [][(i2c.state = "Error" /\ i2c'.state = "Error")
          => i2cLog'.sent = i2cLog.sent]_vars
    /\ ((i2cLog.op = "send" /\ i2c.state \notin {"Idle", "Error"})
          ~> (i2c.state \in {"Idle", "Error"}))
    /\ ((i2cLog.op = "send" /\ i2cPC = "wait") ~> (i2cPC = "idle"))

\* a blocking send of three bytes has completed and its caller has returned
C39_Witness ==
    /\ i2cLog.op = "send"
    /\ i2cLog.n = 3
    /\ i2cLog.sent = <<1, 2, 3>>
    /\ i2c.state = "Idle"
    /\ i2cLog.stops = 1
    /\ i2cPC = "idle"
    /\ ~i2cLog.err

\* C40: a receive or register read of n bytes, n = 0 included, stores at
\* most n bytes, exactly n when it ends without error, acknowledges all of
\* them but the last, ends in Idle with one stop and count 0, and its count
\* never wraps below zero.
C40_Receive ==
    i2cLog.op \in {"receive", "register"} =>
       /\ i2cLog.stored <= i2cLog.n
       /\ i2c.count <= i2cLog.n
       /\ ~i2cLog.wrapped
       /\ (i2c.state = "Idle" /\ ~i2cLog.err) =>
             /\ i2cLog.stored = i2cLog.n
             /\ i2cLog.acks + i2cLog.nacks = i2cLog.n
             /\ i2cLog.stops = 1
             /\ i2c.count = 0
====
